---- MODULE Spec2Model ----
(***************************************************************************)
(* Token providers, paged fetchers and topology builder of                 *)
(* dynatrace_api_client.                                                   *)
(*                                                                         *)
(* JwtAuthenticator (main.py) caches one bearer token and its expiry;      *)
(* StaticTokenAuthenticator (main_static_token.py) holds a fixed token.    *)
(* fetch_json, fetch_paginated_v1 and fetch_paginated_entities (main.py)   *)
(* drive GET requests with one retry after a 401; the fetchers of          *)
(* main_static_token.py make one request per page.                         *)
(* clean_unsupported_metadata, process_entity_to_component and             *)
(* process_topology (main_process_topology.py) turn raw entities, JSON     *)
(* values that carry their Python type, into components and relationships. *)
(*                                                                         *)
(* Time is time.time() in whole seconds.  The n-th POST to the             *)
(* authorization endpoint answers, when it answers with a token at all,    *)
(* with a token of its own ("tok" \o n), as the fake_post of               *)
(* tests/test_main.py does, so that a cached token and a freshly           *)
(* exchanged one can be told apart.                                        *)
(***************************************************************************)
EXTENDS Integers, Sequences, FiniteSets, TLC

VARIABLES
    token,        \* JwtAuthenticator._token
    expiry,       \* JwtAuthenticator._expiry_epoch
    now,          \* the clock read by time.time()
    posts,        \* number of requests.post calls made so far
    lastCall,     \* record of the last JwtAuthenticator call (history)
    cached,       \* exchange time and declared lifetime of the cached token (history)
    api_token,    \* StaticTokenAuthenticator.api_token
    ctor_token,   \* the argument StaticTokenAuthenticator was constructed with (history)
    staticLog,    \* the calls made on the StaticTokenAuthenticator, with what each returned (history)
    pc,           \* where the running fetch is: "idle", "v1_loop", "v2_loop", "returned", "raised"
    fn,           \* the fetch function called: "fetch_json", "fetch_paginated_v1", "fetch_paginated_entities"
    initial_params,   \* the caller's parameter mapping
    params,       \* the paginated fetches: params of the next request
    headers,      \* fetch_paginated_v1: the token in the Authorization header
    aggregated_items, \* fetch_paginated_v1: the accumulator; fetch_paginated_entities: aggregated_entities
    meta,         \* fetch_paginated_entities: the first page's other fields, or None
    page,         \* number of the page being requested (history)
    trace,        \* get_token, invalidate and GET events of the fetch, in order (history)
    result,       \* what the fetch returned or raised
    fetches,      \* number of fetches started with this authenticator (history)
    entity,       \* clean_unsupported_metadata: the component passed by the caller
    coerced,      \* clean_unsupported_metadata: its copy after the loop of lines 37-44 (history)
    cleaned,      \* clean_unsupported_metadata: the component returned
    npc,          \* where the normalizer is: "idle", "called", "returned", "process_called", "processed"
    processed,    \* process_entity_to_component: what it returned or raised
    component_type,   \* process_entity_to_component, process_topology: component_type
    given_type,   \* process_topology: the component_type it was called with (history)
    input_file,   \* process_topology: input_file.name, a sequence of characters
    data,         \* process_topology: the JSON value read from the file
    entities,     \* process_topology: entities
    components,   \* process_topology: components
    relationships,    \* process_topology: relationships
    position,     \* process_topology: place in entities of the entity the loop is at
    tpc,          \* where process_topology is: "idle", "called", "loop", "returned", "raised"
    topology,     \* process_topology: the topology returned
    warnings,     \* process_topology: the warnings printed, with the place of the entity (history)
    comp_of,      \* place in entities of the entity each component comes from (history)
    rel_of,       \* place in entities of the entity each relationship comes from (history)
    heap          \* the dict objects of a normalizer call, by name: the caller's entity, the copy, their properties

authVars == <<token, expiry, now, posts, lastCall, cached>>
staticVars == <<api_token, ctor_token, staticLog>>
fetchVars == <<pc, fn, initial_params, params, headers, aggregated_items, meta, page, trace, result,
              fetches>>
normVars == <<entity, coerced, cleaned, npc, heap>>
topoVars == <<processed, component_type, given_type, input_file, data, entities, components,
             relationships, position, tpc, topology, warnings, comp_of, rel_of>>
vars == <<token, expiry, now, posts, lastCall, cached, api_token, ctor_token, staticLog,
          pc, fn, initial_params, params, headers, aggregated_items, meta, page, trace, result,
          fetches, entity, coerced, cleaned, npc,
          processed, component_type, given_type, input_file, data, entities, components,
          relationships, position, tpc, topology, warnings, comp_of, rel_of, heap>>

----------------------------------------------------------------------------
(* Bounds of the model *)

\* the clock's first value (an epoch time is positive)
StartTime == 1
\* fetches made with one authenticator
MaxFetches == 2
\* last clock value at which the clock still advances
MaxTime == 45
\* requests.post calls per behaviour
MaxPosts == 3
\* seconds a token exchange may take
MaxPostDelay == 1
\* seconds between two looks at the clock
TickStep == 10
\* calls made on one StaticTokenAuthenticator
MaxStaticCalls == 5
\* pages one paginated fetch requests
MaxPages == 2
\* entries of a customPgMetadata list
MaxItems == 2
\* entries of one input collection of process_topology
MaxEntities == 2

(* Program constants *)

\* payload.get("expires_in", 300)
DefaultExpiresIn == 300
\* max(expires_in - 30, 30): the margin taken off the declared lifetime
SafetyMargin == 30
\* max(expires_in - 30, 30): the least time a token is cached
MinCacheSeconds == 30
\* self._expiry_epoch = 0
ExpiredEpoch == 0

----------------------------------------------------------------------------
(* Python values *)

\* Python's None where a string is expected
None == "None"

\* truthiness of an Optional[str]: None and "" are falsy
Truthy_NotNone(s) == s /= None
Truthy(s) == s /= None /\ s /= ""

Max(a, b) == IF a >= b THEN a ELSE b

\* dict.get(key, default) on a mapping modelled as a function
DictGet(d, key, default) == IF key \in DOMAIN d THEN d[key] ELSE default

\* the token string the n-th POST hands out
TokenOf(n) == "tok" \o ToString(n)

----------------------------------------------------------------------------
(* The authorization endpoint: what the n-th requests.post may answer *)

\* lifetimes (expires_in, seconds) the server may declare
Lifetimes == {-5, 10, 30, 59, 60, 61, 70}

\* an expires_in value: one int() converts, or one it raises on
IntValue(n) == [conv |-> TRUE, int |-> n]
BadValue == [conv |-> FALSE, int |-> 0]

\* JSON payloads of a 2xx answer to the n-th POST, declaring a lifetime in Ls
Payloads(n, Ls) ==
    {[access_token |-> TokenOf(n), expires_in |-> IntValue(L)] : L \in Ls}
    \cup {[access_token |-> TokenOf(n)]}
    \cup {[access_token |-> TokenOf(n), expires_in |-> BadValue]}
    \cup {[expires_in |-> IntValue(60)]}
    \cup {[access_token |-> "", expires_in |-> IntValue(60)]}

AuthResponses(n) ==
    {[status_code |-> 200, payload |-> p] : p \in Payloads(n, Lifetimes)}
    \cup {[status_code |-> 500, payload |-> [error |-> "server"]]}

----------------------------------------------------------------------------
(* JwtAuthenticator *)

\* get_token: "not self._token or now >= self._expiry_epoch"
NeedsRefresh_Strict(tok, exp, t) == ~Truthy(tok) \/ t > exp
NeedsRefresh_Always(tok, exp, t) == TRUE
NeedsRefresh(tok, exp, t) == ~Truthy(tok) \/ t >= exp

\* _refresh_token: "if not token: raise RuntimeError"
UsableToken_NotNone(tok) == tok /= None
UsableToken(tok) == Truthy(tok)

\* _refresh_token: time.time() + max(expires_in - 30, 30)
ComputeExpiry_NoFloor(t, expires_in) == t + (expires_in - SafetyMargin)
ComputeExpiry_PlusMargin(t, expires_in) == t + Max(expires_in + SafetyMargin, MinCacheSeconds)
ComputeExpiry(t, expires_in) == t + Max(expires_in - SafetyMargin, MinCacheSeconds)

\* invalidate: the authenticator's fields afterwards
InvalidateAuth_Noop(tok, exp) == [token |-> tok, expiry |-> exp]
InvalidateAuth(tok, exp) == [token |-> None, expiry |-> ExpiredEpoch]

\* _refresh_token left by a raise: both fields as they were
RefreshRaised(tok, exp, err) ==
    [raised |-> err, token |-> tok, expiry |-> exp, declared |-> FALSE, expires_in |-> 0]

\* lines 149-155, with tk = payload.get("access_token") and
\* ei = payload.get("expires_in", 300)
RefreshStore(tok, exp, tk, ei, declared, t2) ==
    IF ~UsableToken(tk) THEN RefreshRaised(tok, exp, "RuntimeError")
    ELSE IF ~ei.conv THEN RefreshRaised(tok, exp, "ValueError")
    ELSE [raised |-> "", token |-> tk, expiry |-> ComputeExpiry(t2, ei.int),
          declared |-> declared, expires_in |-> ei.int]

\* _refresh_token with the POST answered by resp and line 154's time.time()
\* returning t2
RefreshToken(tok, exp, resp, t2) ==
    IF resp.status_code >= 400
    THEN RefreshRaised(tok, exp, "HTTPError")
    ELSE RefreshStore(tok, exp,
                      DictGet(resp.payload, "access_token", None),
                      DictGet(resp.payload, "expires_in", IntValue(DefaultExpiresIn)),
                      "expires_in" \in DOMAIN resp.payload, t2)

\* get_token after _refresh_token left r at time end: line 127
GetTokenRefreshed(r, end) ==
    [token |-> r.token, expiry |-> r.expiry, raised |-> r.raised,
     ret |-> IF r.raised = "" THEN r.token ELSE None,
     posted |-> 1, end |-> end, declared |-> r.declared, expires_in |-> r.expires_in]

\* get_token entered at time t, the POST (if one is made) answered by resp
\* after d seconds.  ret is the returned token, None when the call raised.
GetToken(tok, exp, t, resp, d) ==
    IF NeedsRefresh(tok, exp, t)
    THEN GetTokenRefreshed(RefreshToken(tok, exp, resp, t + d), t + d)
    ELSE [token |-> tok, expiry |-> exp, raised |-> "", ret |-> tok,
          posted |-> 0, end |-> t, declared |-> FALSE, expires_in |-> 0]

\* the access token a POST's answer carries: None on an HTTP error or a
\* payload without one (what the server sent, not what the code made of it)
Granted(resp) ==
    IF resp.status_code >= 400 THEN None ELSE DictGet(resp.payload, "access_token", None)

\* how a call finds the authenticator: just invalidated, after a call that
\* raised, holding a token, or empty
Entry ==
    IF lastCall.op = "invalidate" THEN "invalidated"
    ELSE IF lastCall.raised /= "" THEN "raised"
    ELSE IF Truthy(token) THEN "cached"
    ELSE "empty"

NoCall == [op |-> "none", entry |-> "empty", posted |-> 0, raised |-> "",
           ret |-> None, granted |-> None]

NoCached == [at |-> 0, declared |-> FALSE, lifetime |-> 0]

\* the history of the cached token after a get_token that left r
CachedAfter(r, old) ==
    IF r.posted = 1 /\ r.raised = ""
    THEN [at |-> r.end, declared |-> r.declared, lifetime |-> r.expires_in]
    ELSE old

\* authenticator.get_token() called directly
GetTokenCall ==
    \E resp \in AuthResponses(posts + 1), d \in 0..MaxPostDelay :
        \E r \in {GetToken(token, expiry, now, resp, d)} :
            /\ r.posted = 1 => posts < MaxPosts
            /\ token' = r.token
            /\ expiry' = r.expiry
            /\ now' = r.end
            /\ posts' = posts + r.posted
            /\ lastCall' = [op |-> "get_token", entry |-> Entry, posted |-> r.posted,
                            raised |-> r.raised, ret |-> r.ret,
                            granted |-> IF r.posted = 1 THEN Granted(resp) ELSE None]
            /\ cached' = CachedAfter(r, cached)
            /\ UNCHANGED <<staticVars, fetchVars, normVars, topoVars>>

\* authenticator.invalidate() called directly
InvalidateCall ==
    \E a \in {InvalidateAuth(token, expiry)} :
        /\ token' = a.token
        /\ expiry' = a.expiry
        /\ lastCall' = [NoCall EXCEPT !.op = "invalidate", !.entry = Entry]
        /\ cached' = IF Truthy(a.token) THEN cached ELSE NoCached
        /\ UNCHANGED <<now, posts>>
        /\ UNCHANGED <<staticVars, fetchVars, normVars, topoVars>>

\* time passes between calls
Tick ==
    /\ now < MaxTime
    /\ now' = now + TickStep
    /\ UNCHANGED <<token, expiry, posts, lastCall, cached>>
    /\ UNCHANGED <<staticVars, fetchVars, normVars, topoVars>>

----------------------------------------------------------------------------
(* StaticTokenAuthenticator *)

StaticTokens == {"dt0c01.A", "dt0c01.B", ""}

\* get_token: return self.api_token
StaticGetToken(tok) == tok

\* invalidate: pass
StaticInvalidate_Clear(tok) == None
StaticInvalidate(tok) == tok

StaticGetTokenCall ==
    /\ Len(staticLog) < MaxStaticCalls
    /\ staticLog' = Append(staticLog, [op |-> "get_token", ret |-> StaticGetToken(api_token)])
    /\ UNCHANGED <<api_token, ctor_token>>
    /\ UNCHANGED <<authVars, fetchVars, normVars, topoVars>>

StaticInvalidateCall ==
    /\ Len(staticLog) < MaxStaticCalls
    /\ api_token' = StaticInvalidate(api_token)
    /\ staticLog' = Append(staticLog, [op |-> "invalidate", ret |-> None])
    /\ UNCHANGED ctor_token
    /\ UNCHANGED <<authVars, fetchVars, normVars, topoVars>>

----------------------------------------------------------------------------
(* The monitored API: what a GET may be answered *)

\* a parameter mapping with no entry
NoParams == [k \in {} |-> ""]

\* d[key] = value on a copy of the mapping d
DictSet(d, key, value) ==
    [k \in DOMAIN d \cup {key} |-> IF k = key THEN value ELSE d[k]]

\* the parameter mappings a caller passes (run_v1_calls passes the first)
ParamSets ==
    {[relativeTime |-> "hour", pageSize |-> "50"],
     [pageSize |-> "50", nextPageKey |-> "stale"]}

\* response.json(): a JSON array, another JSON value, or a ValueError
ListBody(items) == [kind |-> "list", val |-> items]
ObjectBody(id) == [kind |-> "object", val |-> id]
InvalidBody == [kind |-> "invalid", val |-> ""]
NoBody == [kind |-> "none", val |-> ""]

Bodies == {ListBody(<<"e1", "e2">>), ObjectBody("o1"), InvalidBody}

\* a JSON document of the v2 entities endpoint: a mapping from field names
\* to values, its records under "entities", its cursor under "nextPageKey"
DocBody(doc) == [kind |-> "doc", val |-> doc]

\* response.headers.get("Next-Page-Key"): None when the header is absent
Cursors == {None, "", "k1", "k2"}

NoResponse == [status_code |-> 0, body |-> NoBody, next_page_key |-> None]

\* session.get(..., timeout=30) raised requests.Timeout: there is no response
TimedOut(resp) == resp = NoResponse

\* An accepted answer carries any body and cursor.  A rejected one (401) and a
\* failed one (500) carry a body and a cursor of their own, which no fetch
\* may take for a page.  NoResponse stands for a request that timed out.
GetResponses ==
    {[status_code |-> 200, body |-> b, next_page_key |-> k] : b \in Bodies, k \in Cursors}
    \cup {[status_code |-> 401, body |-> ListBody(<<"denied">>), next_page_key |-> "k401"],
          [status_code |-> 500, body |-> ListBody(<<"failed">>), next_page_key |-> "k500"],
          NoResponse}

\* the documents the v2 entities endpoint may answer with: the first and the
\* third are the pages of test_fetch_paginated_entities
EntityDocs ==
    {[entities |-> <<"E1">>, nextPageKey |-> "abc", totalCount |-> "2", pageSize |-> "1"],
     [entities |-> <<"E2", "E3">>, nextPageKey |-> "def", totalCount |-> "9"],
     [entities |-> <<"E2">>, totalCount |-> "2", pageSize |-> "1"],
     [entities |-> <<"E4">>, nextPageKey |-> "", totalCount |-> "7"],
     [nextPageKey |-> "abc", pageSize |-> "0"],
     [totalCount |-> "0"]}

\* what a GET of the v2 entities endpoint may be answered: a document, a JSON
\* array, a body that does not parse, a rejection, a failure, a timeout
EntityResponses ==
    {[status_code |-> 200, body |-> b, next_page_key |-> None] :
        b \in {DocBody(doc) : doc \in EntityDocs} \cup {ListBody(<<"e1", "e2">>), InvalidBody}}
    \cup {[status_code |-> 401,
           body |-> DocBody([entities |-> <<"denied">>, nextPageKey |-> "k401"]),
           next_page_key |-> None],
          [status_code |-> 500,
           body |-> DocBody([entities |-> <<"failed">>, nextPageKey |-> "k500"]),
           next_page_key |-> None],
          NoResponse}

\* the parameter mappings run_v2_calls passes
EntityParamSets ==
    {[entitySelector |-> "type(PROCESS_GROUP)", from |-> "now-1h", fields |-> "+tags"]}

\* what the authorization endpoint answers to a POST made during a fetch
AuthAnswerKinds == {"token", "empty_token", "http_error"}

AuthAnswer(kind, n) ==
    IF kind = "token"
    THEN [status_code |-> 200,
          payload |-> [access_token |-> TokenOf(n), expires_in |-> IntValue(60)]]
    ELSE IF kind = "empty_token"
    THEN [status_code |-> 200,
          payload |-> [access_token |-> "", expires_in |-> IntValue(60)]]
    ELSE [status_code |-> 500, payload |-> [error |-> "server"]]

----------------------------------------------------------------------------
(* The authenticator as a fetch uses it *)

\* the authenticator's fields, the clock and the POST count, threaded
\* through the calls of one handler
AuthState == [token |-> token, expiry |-> expiry, now |-> now, posts |-> posts,
              cached |-> cached]

\* events of the trace: a get_token with the token it returned (None when it
\* raised), an invalidate, a GET with its parameters, the token of its
\* Authorization header and the answer it got
GetTokenEvent(ret, pg) ==
    [e |-> "get_token", tok |-> ret, params |-> NoParams, page |-> pg,
     status |-> 0, body |-> NoBody, cursor |-> None]
InvalidateEvent(pg) ==
    [e |-> "invalidate", tok |-> None, params |-> NoParams, page |-> pg,
     status |-> 0, body |-> NoBody, cursor |-> None]
GetEvent(ps, tok, resp, pg) ==
    [e |-> "GET", tok |-> tok, params |-> ps, page |-> pg,
     status |-> resp.status_code, body |-> resp.body, cursor |-> resp.next_page_key]

\* the authenticator after a get_token that left g
AuthAfter(a, g) ==
    [a |-> [token |-> g.token, expiry |-> g.expiry, now |-> g.end,
            posts |-> a.posts + g.posted, cached |-> CachedAfter(g, a.cached)],
     ret |-> g.ret, raised |-> g.raised]

\* authenticator.get_token()
AuthGetToken_NoExpiryCheck(a, kind, d) ==
    IF Truthy(a.token)
    THEN [a |-> a, ret |-> a.token, raised |-> ""]
    ELSE AuthAfter(a, GetToken(a.token, a.expiry, a.now, AuthAnswer(kind, a.posts + 1), d))
AuthGetToken(a, kind, d) ==
    AuthAfter(a, GetToken(a.token, a.expiry, a.now, AuthAnswer(kind, a.posts + 1), d))

\* the authenticator's fields set to i
AuthWith(a, i) ==
    [a EXCEPT !.token = i.token, !.expiry = i.expiry,
              !.cached = IF Truthy(i.token) THEN a.cached ELSE NoCached]

\* authenticator.invalidate()
AuthInvalidate(a) == AuthWith(a, InvalidateAuth(a.token, a.expiry))

\* response.status_code == 401
IsUnauthorized_AnyError(resp) == resp.status_code >= 400
IsUnauthorized(resp) == resp.status_code = 401

\* response.raise_for_status()
RaisesForStatus(resp) == resp.status_code >= 400

----------------------------------------------------------------------------
(* fetch_json *)

\* lines 182-184 after get_token left g: the GET goes out unless it raised
DoRequestWith(g, ps, pg, resp) ==
    IF g.raised /= ""
    THEN [a |-> g.a, raised |-> g.raised, response |-> NoResponse,
          events |-> <<GetTokenEvent(g.ret, pg)>>]
    ELSE [a |-> g.a, raised |-> IF TimedOut(resp) THEN "Timeout" ELSE "", response |-> resp,
          events |-> <<GetTokenEvent(g.ret, pg), GetEvent(ps, g.ret, resp, pg)>>]

\* do_request: get_token, then session.get(url, params, headers) answered by resp
DoRequest(a, ps, pg, kind, d, resp) ==
    DoRequestWith(AuthGetToken(a, kind, d), ps, pg, resp)

\* lines 191-195: raise_for_status, then response.json()
FetchJsonResult(a, events, resp) ==
    IF RaisesForStatus(resp)
    THEN [a |-> a, events |-> events, raised |-> "HTTPError", ret |-> NoBody]
    ELSE IF resp.body.kind = "invalid"
    THEN [a |-> a, events |-> events, raised |-> "RuntimeError", ret |-> NoBody]
    ELSE [a |-> a, events |-> events, raised |-> "", ret |-> resp.body]

\* the outcome r of a request, after the events that came before it
After(events, r) == [r EXCEPT !.events = events \o r.events]

\* lines 188-189: invalidate, then do_request again
FetchJsonRetry_StaleToken(r1, ps, pg, in) ==
    [a |-> AuthInvalidate(r1.a), raised |-> "", response |-> in.resp2,
     events |-> r1.events \o <<InvalidateEvent(pg),
                                GetEvent(ps, r1.events[1].tok, in.resp2, pg)>>]
FetchJsonRetry(r1, ps, pg, in) ==
    After(r1.events \o <<InvalidateEvent(pg)>>,
          DoRequest(AuthInvalidate(r1.a), ps, pg, in.auth2, in.d, in.resp2))

\* lines 187-189: a 401 is retried once
FetchJsonChecked(r1, ps, pg, in) ==
    IF r1.raised = "" /\ IsUnauthorized(r1.response)
    THEN FetchJsonRetry(r1, ps, pg, in)
    ELSE r1

\* lines 191-195 for the outcome r of the last request
FetchJsonEnd(r) ==
    IF r.raised /= ""
    THEN [a |-> r.a, events |-> r.events, raised |-> r.raised, ret |-> NoBody]
    ELSE FetchJsonResult(r.a, r.events, r.response)

\* fetch_json(session, url, authenticator, params) with the authorization
\* endpoint answering in.auth1 and in.auth2 after in.d seconds, and the API
\* answering in.resp1 and, to a retry, in.resp2
FetchJson(a, ps, pg, in) ==
    FetchJsonEnd(FetchJsonChecked(DoRequest(a, ps, pg, in.auth1, in.d, in.resp1), ps, pg, in))

\* meta: Optional[Dict] = None
NoMeta == [is_none |-> TRUE, val |-> NoParams]

NoResult == [raised |-> "", body |-> NoBody, items |-> <<>>]

\* the inputs of one handler step: what the authorization endpoint answers
\* to a first and a second POST, after d seconds each, and what the API
\* answers to a request and to its retry after a 401
StepInputsOf(Rs) ==
    {[auth1 |-> k1, auth2 |-> "token", d |-> 0, resp1 |-> r1, resp2 |-> NoResponse] :
        k1 \in AuthAnswerKinds, r1 \in {r \in Rs : r.status_code /= 401}}
    \cup {[auth1 |-> "token", auth2 |-> k2, d |-> 0, resp1 |-> r1, resp2 |-> r2] :
        k2 \in AuthAnswerKinds,
        r1 \in {r \in Rs : r.status_code = 401}, r2 \in Rs}

\* the inputs of a step whose requests go to a v1 endpoint
StepInputs == StepInputsOf(GetResponses)

\* the authenticator and the clock after a handler step
SetAuth(a) ==
    /\ token' = a.token
    /\ expiry' = a.expiry
    /\ now' = a.now
    /\ posts' = a.posts
    /\ cached' = a.cached
    /\ posts' <= MaxPosts

\* a caller calls fetch_json(session, url, authenticator, params=ps)
FetchJsonCall ==
    /\ pc = "idle"
    /\ fetches < MaxFetches
    /\ fetches' = fetches + 1
    /\ \E ps \in ParamSets, in \in StepInputs :
        \E r \in {FetchJson(AuthState, ps, 1, in)} :
            /\ SetAuth(r.a)
            /\ fn' = "fetch_json"
            /\ initial_params' = ps
            /\ page' = 1
            /\ trace' = r.events
            /\ result' = [raised |-> r.raised, body |-> r.ret, items |-> <<>>]
            /\ pc' = IF r.raised = "" THEN "returned" ELSE "raised"
            /\ UNCHANGED <<params, headers, aggregated_items, meta>>
            /\ UNCHANGED <<lastCall, staticVars, normVars, topoVars>>

----------------------------------------------------------------------------
(* fetch_paginated_v1 *)

\* lines 205-208: the accumulator, a copy of the parameters, one get_token
V1Begin ==
    /\ pc = "idle"
    /\ fetches < MaxFetches
    /\ fetches' = fetches + 1
    /\ \E ps \in ParamSets, kind \in AuthAnswerKinds :
        \E g \in {AuthGetToken(AuthState, kind, 0)} :
            /\ SetAuth(g.a)
            /\ fn' = "fetch_paginated_v1"
            /\ initial_params' = ps
            /\ params' = ps
            /\ headers' = g.ret
            /\ aggregated_items' = <<>>
            /\ UNCHANGED meta
            /\ page' = 1
            /\ trace' = <<GetTokenEvent(g.ret, 1)>>
            /\ result' = [NoResult EXCEPT !.raised = g.raised]
            /\ pc' = IF g.raised = "" THEN "v1_loop" ELSE "raised"
            /\ UNCHANGED <<lastCall, staticVars, normVars, topoVars>>

\* lines 214-216 after get_token left g: the new header and the second GET
V1RetryWith_InitialParams(g, ps, hd, pg, resp2) ==
    IF g.raised /= ""
    THEN [a |-> g.a, raised |-> g.raised, headers |-> hd, response |-> NoResponse,
          events |-> <<InvalidateEvent(pg), GetTokenEvent(g.ret, pg)>>]
    ELSE [a |-> g.a, raised |-> IF TimedOut(resp2) THEN "Timeout" ELSE "", headers |-> g.ret,
          response |-> resp2,
          events |-> <<InvalidateEvent(pg), GetTokenEvent(g.ret, pg),
                       GetEvent([k \in DOMAIN ps \ {"nextPageKey"} |-> ps[k]], g.ret,
                                resp2, pg)>>]
V1RetryWith(g, ps, hd, pg, resp2) ==
    IF g.raised /= ""
    THEN [a |-> g.a, raised |-> g.raised, headers |-> hd, response |-> NoResponse,
          events |-> <<InvalidateEvent(pg), GetTokenEvent(g.ret, pg)>>]
    ELSE [a |-> g.a, raised |-> IF TimedOut(resp2) THEN "Timeout" ELSE "", headers |-> g.ret,
          response |-> resp2,
          events |-> <<InvalidateEvent(pg), GetTokenEvent(g.ret, pg),
                       GetEvent(ps, g.ret, resp2, pg)>>]

\* lines 213-216: invalidate, get_token, the same request again
V1Retry(a, ps, hd, pg, in) ==
    V1RetryWith(AuthGetToken(AuthInvalidate(a), in.auth2, in.d), ps, hd, pg, in.resp2)

\* lines 212-216 for the first answer resp1: a 401 is retried once
V1Checked_Second(r2, ps, pg, in) ==
    IF r2.raised = "" /\ IsUnauthorized(r2.response)
    THEN After(r2.events, V1Retry(r2.a, ps, r2.headers, pg, in))
    ELSE r2
V1Checked_RetryAgain(a, ps, hd, pg, in) ==
    IF IsUnauthorized(in.resp1)
    THEN V1Checked_Second(V1Retry(a, ps, hd, pg, in), ps, pg, in)
    ELSE [a |-> a, raised |-> IF TimedOut(in.resp1) THEN "Timeout" ELSE "", headers |-> hd,
          response |-> in.resp1, events |-> <<>>]
V1Checked(a, ps, hd, pg, in) ==
    IF IsUnauthorized(in.resp1)
    THEN V1Retry(a, ps, hd, pg, in)
    ELSE [a |-> a, raised |-> IF TimedOut(in.resp1) THEN "Timeout" ELSE "", headers |-> hd,
          response |-> in.resp1, events |-> <<>>]

\* lines 211-216: the request of one page, retried once after a 401
V1Request_RetryFirstPageOnly(a, ps, hd, pg, in) ==
    After(<<GetEvent(ps, hd, in.resp1, pg)>>,
          IF pg = 1 THEN V1Checked(a, ps, hd, pg, in)
          ELSE [a |-> a, raised |-> IF TimedOut(in.resp1) THEN "Timeout" ELSE "",
                headers |-> hd, response |-> in.resp1, events |-> <<>>])
V1Request(a, ps, hd, pg, in) ==
    After(<<GetEvent(ps, hd, in.resp1, pg)>>, V1Checked(a, ps, hd, pg, in))

\* lines 218-229: raise_for_status and response.json() raise a RuntimeError
V1Raises_FirstPageOnly(r) ==
    /\ r.events[1].page = 1
    /\ (r.raised /= "" \/ RaisesForStatus(r.response) \/ r.response.body.kind = "invalid")
V1Raises(r) ==
    r.raised /= "" \/ RaisesForStatus(r.response) \/ r.response.body.kind = "invalid"

\* lines 231-236: a list extends the accumulator, anything else is appended
V1Accumulate_Overwrite(items, body) ==
    IF body.kind = "list" THEN body.val ELSE <<body.val>>
V1Accumulate(items, body) ==
    IF body.kind = "list" THEN items \o body.val ELSE Append(items, body.val)

\* lines 243-244: the original parameters plus the cursor
V1NextParams_CursorOnly(ps, initial, key) == [nextPageKey |-> key]
V1NextParams(ps, initial, key) == DictSet(initial, "nextPageKey", key)

\* one pass of the while loop, lines 211-244
V1Page ==
    /\ pc = "v1_loop"
    /\ page <= MaxPages
    /\ \E in \in StepInputs :
        \E r \in {V1Request(AuthState, params, headers, page, in)} :
            /\ in.auth1 = "token"
            /\ SetAuth(r.a)
            /\ headers' = r.headers
            /\ trace' = trace \o r.events
            /\ IF V1Raises(r)
               THEN /\ pc' = "raised"
                    /\ result' = [NoResult EXCEPT
                                    !.raised = IF r.raised /= "" THEN r.raised ELSE "RuntimeError"]
                    /\ UNCHANGED <<aggregated_items, params, page>>
               ELSE /\ aggregated_items' = V1Accumulate(aggregated_items, r.response.body)
                    /\ IF ~Truthy(r.response.next_page_key)
                       THEN /\ pc' = "returned"
                            /\ result' = [NoResult EXCEPT !.items = aggregated_items']
                            /\ UNCHANGED <<params, page>>
                       ELSE /\ pc' = "v1_loop"
                            /\ params' = V1NextParams(params, initial_params, r.response.next_page_key)
                            /\ page' = page + 1
                            /\ UNCHANGED result
            /\ UNCHANGED <<fn, initial_params, meta, fetches, lastCall, staticVars, normVars, topoVars>>

----------------------------------------------------------------------------
(* fetch_paginated_entities *)

\* the names of the list field and of the cursor field
ListAndCursorFields == {"entities", "nextPageKey"}

\* lines 262-263: the first page's other fields, captured once
EntitiesMeta_Merged(m, doc) ==
    [is_none |-> FALSE,
     val |-> [k \in (DOMAIN m.val \cup DOMAIN doc) \ ListAndCursorFields |->
                IF k \in DOMAIN doc THEN doc[k] ELSE m.val[k]]]
EntitiesMeta(m, doc) ==
    IF m.is_none
    THEN [is_none |-> FALSE, val |-> [k \in DOMAIN doc \ ListAndCursorFields |-> doc[k]]]
    ELSE m

\* line 264: aggregated_entities.extend(response.get("entities", []))
EntitiesExtend(items, doc) == items \o DictGet(doc, "entities", <<>>)

\* line 268: params = {"nextPageKey": next_key}
EntitiesNextParams_KeepFilters(initial, key) == DictSet(initial, "nextPageKey", key)
EntitiesNextParams(initial, key) == [nextPageKey |-> key]

\* lines 270-274: the result is a copy of meta with the aggregate under "entities"
EntitiesResult(m, items) ==
    DictSet(IF m.is_none THEN NoParams ELSE m.val, "entities", items)

\* lines 255-258: the accumulator, meta and a copy of the parameters
EntitiesBegin ==
    /\ pc = "idle"
    /\ fetches < MaxFetches
    /\ fetches' = fetches + 1
    /\ \E ps \in EntityParamSets :
        /\ fn' = "fetch_paginated_entities"
        /\ initial_params' = ps
        /\ params' = ps
        /\ aggregated_items' = <<>>
        /\ meta' = NoMeta
        /\ page' = 1
        /\ trace' = <<>>
        /\ result' = NoResult
        /\ pc' = "v2_loop"
        /\ UNCHANGED <<headers, authVars, staticVars, normVars, topoVars>>

\* lines 262-268 for the document doc that fetch_json returned
EntitiesAccept(doc) ==
    /\ meta' = EntitiesMeta(meta, doc)
    /\ aggregated_items' = EntitiesExtend(aggregated_items, doc)
    /\ IF ~Truthy(DictGet(doc, "nextPageKey", None))
       THEN /\ pc' = "returned"
            /\ result' = [NoResult EXCEPT
                            !.body = DocBody(EntitiesResult(meta', aggregated_items'))]
            /\ UNCHANGED <<params, page>>
       ELSE /\ pc' = "v2_loop"
            /\ params' = EntitiesNextParams(initial_params, doc.nextPageKey)
            /\ page' = page + 1
            /\ UNCHANGED result

\* one pass of the while loop, lines 261-268: fetch_json, then the
\* bookkeeping; a body that is no JSON object has no items() and no get()
EntitiesPage ==
    /\ pc = "v2_loop"
    /\ page <= MaxPages
    /\ \E in \in StepInputsOf(EntityResponses) :
        \E r \in {FetchJson(AuthState, params, page, in)} :
            /\ SetAuth(r.a)
            /\ trace' = trace \o r.events
            /\ IF r.raised /= "" \/ r.ret.kind /= "doc"
               THEN /\ pc' = "raised"
                    /\ result' = [NoResult EXCEPT
                                    !.raised = IF r.raised /= "" THEN r.raised
                                               ELSE "AttributeError"]
                    /\ UNCHANGED <<aggregated_items, meta, params, page>>
               ELSE EntitiesAccept(r.ret.val)
            /\ UNCHANGED <<fn, initial_params, headers, fetches, lastCall, staticVars, normVars, topoVars>>

\* a request takes its time: the clock advances while a paginated fetch runs
PageTick ==
    /\ pc \in {"v1_loop", "v2_loop"}
    /\ now < MaxTime
    /\ now' = now + MinCacheSeconds
    /\ UNCHANGED <<token, expiry, posts, lastCall, cached>>
    /\ UNCHANGED <<staticVars, fetchVars, normVars, topoVars>>

----------------------------------------------------------------------------
(* main_static_token.py: fetch_json and fetch_paginated_v1 with a            *)
(* StaticTokenAuthenticator.  Neither looks at the status for a 401.        *)

\* a request that does not yield a parsed body: session.get raised, or
\* raise_for_status or response.json() did (both turned into a RuntimeError)
StaticRaises(resp) ==
    TimedOut(resp) \/ RaisesForStatus(resp) \/ resp.body.kind = "invalid"

\* the error a request that does not yield a parsed body ends in
StaticRaised(resp) == IF TimedOut(resp) THEN "Timeout" ELSE "RuntimeError"

\* fetch_json of main_static_token.py, lines 125-138
StaticFetchJsonCall ==
    /\ pc = "idle"
    /\ fetches < MaxFetches
    /\ fetches' = fetches + 1
    /\ \E ps \in ParamSets, resp \in GetResponses :
        /\ fn' = "static_fetch_json"
        /\ initial_params' = ps
        /\ page' = 1
        /\ trace' = <<GetTokenEvent(StaticGetToken(api_token), 1),
                      GetEvent(ps, StaticGetToken(api_token), resp, 1)>>
        /\ result' = IF StaticRaises(resp)
                     THEN [NoResult EXCEPT !.raised = StaticRaised(resp)]
                     ELSE [NoResult EXCEPT !.body = resp.body]
        /\ pc' = IF StaticRaises(resp) THEN "raised" ELSE "returned"
        /\ UNCHANGED <<params, headers, aggregated_items, meta>>
        /\ UNCHANGED <<authVars, staticVars, normVars, topoVars>>

\* fetch_paginated_v1 of main_static_token.py, lines 149-153
StaticV1Begin ==
    /\ pc = "idle"
    /\ fetches < MaxFetches
    /\ fetches' = fetches + 1
    /\ \E ps \in ParamSets :
        /\ fn' = "static_fetch_paginated_v1"
        /\ initial_params' = ps
        /\ params' = ps
        /\ headers' = StaticGetToken(api_token)
        /\ aggregated_items' = <<>>
        /\ page' = 1
        /\ trace' = <<GetTokenEvent(StaticGetToken(api_token), 1)>>
        /\ result' = NoResult
        /\ pc' = "static_v1_loop"
        /\ UNCHANGED <<meta, authVars, staticVars, normVars, topoVars>>

\* one pass of its while loop, lines 156-189
StaticV1Page ==
    /\ pc = "static_v1_loop"
    /\ page <= MaxPages
    /\ \E resp \in GetResponses :
        /\ trace' = Append(trace, GetEvent(params, headers, resp, page))
        /\ IF StaticRaises(resp)
           THEN /\ pc' = "raised"
                /\ result' = [NoResult EXCEPT !.raised = StaticRaised(resp)]
                /\ UNCHANGED <<aggregated_items, params, page>>
           ELSE /\ aggregated_items' = V1Accumulate(aggregated_items, resp.body)
                /\ IF ~Truthy(resp.next_page_key)
                   THEN /\ pc' = "returned"
                        /\ result' = [NoResult EXCEPT !.items = aggregated_items']
                        /\ UNCHANGED <<params, page>>
                   ELSE /\ pc' = "static_v1_loop"
                        /\ params' = V1NextParams(params, initial_params, resp.next_page_key)
                        /\ page' = page + 1
                        /\ UNCHANGED result
    /\ UNCHANGED <<fn, initial_params, headers, meta, fetches, authVars, staticVars, normVars, topoVars>>

\* the caller goes on: the next fetch starts from a clean slate, with the
\* same authenticator
FetchReset ==
    /\ pc \in {"returned", "raised"}
    /\ pc' = "idle"
    /\ fn' = "none"
    /\ initial_params' = NoParams
    /\ params' = NoParams
    /\ headers' = None
    /\ aggregated_items' = <<>>
    /\ meta' = NoMeta
    /\ page' = 0
    /\ trace' = <<>>
    /\ result' = NoResult
    /\ UNCHANGED <<fetches, authVars, staticVars, normVars, topoVars>>

----------------------------------------------------------------------------
(* main_process_topology.py: JSON values *)

\* A JSON value carries its Python type: "str", "int", "float", "bool",
\* "null", "list" (v a sequence of values) or "dict" (v a function from
\* field names to values).  A float is written whole.tenths.
JsonStr(s) == [t |-> "str", v |-> s]
JsonInt(n) == [t |-> "int", v |-> n]
JsonFloat(w, f) == [t |-> "float", v |-> <<w, f>>]
JsonBool(b) == [t |-> "bool", v |-> b]
JsonNull == [t |-> "null", v |-> None]
JsonList(items) == [t |-> "list", v |-> items]
JsonDict(fields) == [t |-> "dict", v |-> fields]

\* {}
EmptyDict == JsonDict(NoParams)

\* isinstance(x, (str, int, float, bool))
IsScalar(x) == x.t \in {"str", "int", "float", "bool"}

\* str(x) of a scalar or of None
PyStr(x) ==
    IF x.t = "str" THEN x.v
    ELSE IF x.t = "int" THEN ToString(x.v)
    ELSE IF x.t = "float" THEN ToString(x.v[1]) \o "." \o ToString(x.v[2])
    ELSE IF x.t = "bool" THEN (IF x.v THEN "True" ELSE "False")
    ELSE "None"

\* the truth value Python's `or` sees
PyTruthy(x) ==
    IF x.t = "str" THEN x.v /= ""
    ELSE IF x.t = "int" THEN x.v /= 0
    ELSE IF x.t = "float" THEN x.v /= <<0, 0>>
    ELSE IF x.t = "bool" THEN x.v
    ELSE IF x.t = "null" THEN FALSE
    ELSE IF x.t = "list" THEN x.v /= <<>>
    ELSE DOMAIN x.v /= {}

\* d.get(key) and d.get(key, default) on a dict value
Get(d, key) == IF key \in DOMAIN d.v THEN d.v[key] ELSE JsonNull
GetOr(d, key, default) == IF key \in DOMAIN d.v THEN d.v[key] ELSE default

\* f"{prefix}{i}" for the index i of enumerate, which counts from 0
Indexed(prefix, i) == JsonStr(prefix \o ToString(i))

----------------------------------------------------------------------------
(* clean_unsupported_metadata *)

\* lines 37-44: a top-level float, bool or int becomes its string form
CoerceScalars_Recursive(c) ==
    [k \in DOMAIN c |->
        IF c[k].t \in {"float", "bool", "int"} THEN JsonStr(PyStr(c[k]))
        ELSE IF c[k].t = "list"
        THEN JsonList([j \in DOMAIN c[k].v |->
                    IF c[k].v[j].t \in {"float", "bool", "int"} THEN JsonStr(PyStr(c[k].v[j]))
                    ELSE c[k].v[j]])
        ELSE c[k]]
CoerceScalars(c) ==
    [k \in DOMAIN c |->
        IF c[k].t \in {"float", "bool", "int"} THEN JsonStr(PyStr(c[k])) ELSE c[k]]

\* lines 51-52: a releasesVersion that is a string becomes {}
CleanReleasesVersion(p) ==
    IF "releasesVersion" \in DOMAIN p /\ p["releasesVersion"].t = "str"
    THEN DictSet(p, "releasesVersion", EmptyDict)
    ELSE p

\* lines 59-69: the name an osServices entry is converted to
ServiceName(service, i) ==
    IF service.t = "dict"
    THEN (IF PyTruthy(Get(service, "dt.osservice.name"))
          THEN Get(service, "dt.osservice.name")
          ELSE IF PyTruthy(Get(service, "dt.osservice.display_name"))
          THEN Get(service, "dt.osservice.display_name")
          ELSE Indexed("unknown_service_", i))
    ELSE IF service.t = "str" THEN service
    ELSE JsonStr(PyStr(service))

\* lines 55-70: an osServices list becomes the list of its entries' names
ConvertOsServices(p) ==
    IF "osServices" \in DOMAIN p /\ p["osServices"].t = "list"
    THEN DictSet(p, "osServices",
                 JsonList([j \in DOMAIN p["osServices"].v |->
                         ServiceName(p["osServices"].v[j], j - 1)]))
    ELSE p

\* lines 78-89: the key a customPgMetadata record resolves to
ResolveKey(item, i) ==
    IF Get(item, "key").t = "dict"
    THEN (IF IsScalar(Get(Get(item, "key"), "key"))
          THEN PyStr(Get(Get(item, "key"), "key"))
          ELSE "unknown_key_" \o ToString(i))
    ELSE IF IsScalar(Get(item, "key")) THEN PyStr(Get(item, "key"))
    ELSE "unknown_key_" \o ToString(i)

\* line 90: item.get('value', item.get('val', f'unknown_value_{i}'))
ItemValue(item, i) == GetOr(item, "value", GetOr(item, "val", Indexed("unknown_value_", i)))

\* lines 77-93: the key and the value the entry at index i is stored under
EntryKey(item, i) ==
    IF item.t = "dict" THEN ResolveKey(item, i) ELSE "item_" \o ToString(i)
EntryValue(item, i) ==
    IF item.t = "dict" THEN ItemValue(item, i) ELSE JsonStr(PyStr(item))

\* lines 75-93: converted_dict after the first n entries of items
RECURSIVE FoldCustomPgMetadata_FirstWins(_, _)
FoldCustomPgMetadata_FirstWins(items, n) ==
    IF n = 0 THEN NoParams
    ELSE IF EntryKey(items[n], n - 1) \in DOMAIN FoldCustomPgMetadata_FirstWins(items, n - 1)
    THEN FoldCustomPgMetadata_FirstWins(items, n - 1)
    ELSE DictSet(FoldCustomPgMetadata_FirstWins(items, n - 1),
                 EntryKey(items[n], n - 1), EntryValue(items[n], n - 1))
RECURSIVE FoldCustomPgMetadata(_, _)
FoldCustomPgMetadata(items, n) ==
    IF n = 0 THEN NoParams
    ELSE DictSet(FoldCustomPgMetadata(items, n - 1),
                 EntryKey(items[n], n - 1), EntryValue(items[n], n - 1))

\* lines 73-96: a customPgMetadata list is folded, a dict stays, anything
\* else becomes {}
ConvertCustomPgMetadata_ClearOnNonRecord(p) ==
    IF "customPgMetadata" \notin DOMAIN p THEN p
    ELSE IF p["customPgMetadata"].t = "list"
            /\ \A j \in DOMAIN p["customPgMetadata"].v : p["customPgMetadata"].v[j].t = "dict"
    THEN DictSet(p, "customPgMetadata",
                 JsonDict(FoldCustomPgMetadata(p["customPgMetadata"].v,
                                           Len(p["customPgMetadata"].v))))
    ELSE IF p["customPgMetadata"].t /= "dict"
    THEN DictSet(p, "customPgMetadata", EmptyDict)
    ELSE p
ConvertCustomPgMetadata(p) ==
    IF "customPgMetadata" \notin DOMAIN p THEN p
    ELSE IF p["customPgMetadata"].t = "list"
    THEN DictSet(p, "customPgMetadata",
                 JsonDict(FoldCustomPgMetadata(p["customPgMetadata"].v,
                                           Len(p["customPgMetadata"].v))))
    ELSE IF p["customPgMetadata"].t /= "dict"
    THEN DictSet(p, "customPgMetadata", EmptyDict)
    ELSE p

\* lines 99-103 and 106-110: a list is wrapped under the field's own name, a
\* dict stays, anything else becomes None
WrapLogField(p, field) ==
    IF field \notin DOMAIN p THEN p
    ELSE IF p[field].t = "list"
    THEN DictSet(p, field, JsonDict([k \in {field} |-> p[field]]))
    ELSE IF p[field].t /= "dict"
    THEN DictSet(p, field, JsonNull)
    ELSE p

\* lines 47-110: the special cases under properties, in the order of the code
CleanProperties(c) ==
    IF "properties" \in DOMAIN c /\ c["properties"].t = "dict"
    THEN DictSet(c, "properties",
                 JsonDict(WrapLogField(
                        WrapLogField(
                          ConvertCustomPgMetadata(
                            ConvertOsServices(
                              CleanReleasesVersion(c["properties"].v))),
                          "logFileStatus"),
                        "logSourceState")))
    ELSE c

\* lines 113-114: del component["lastSeenTimestamp"]
DropLastSeen(c) == [k \in DOMAIN c \ {"lastSeenTimestamp"} |-> c[k]]

\* clean_unsupported_metadata(component), lines 35-116
CleanUnsupportedMetadata(c) == DropLastSeen(CleanProperties(CoerceScalars(c)))

----------------------------------------------------------------------------
(* The dict objects a call of the normalizer reads and writes *)

\* the value a field holds when it holds another object of the heap
Ref(address) == [t |-> "ref", v |-> address]

\* the objects a record c is made of: the record itself at address top and,
\* when its properties are a record, that record at top.properties. No
\* other object is written in place by the code: lists and the records
\* below properties are only read or replaced
Objects(c, top) ==
    IF "properties" \in DOMAIN c /\ c["properties"].t = "dict"
    THEN (top :> DictSet(c, "properties", Ref(top \o ".properties")))
         @@ (top \o ".properties" :> c["properties"].v)
    ELSE (top :> c)

NoHeap == [address \in {} |-> <<>>]

\* the record read at address top, through its references
Value(h, top) ==
    [k \in DOMAIN h[top] |->
        IF h[top][k].t = "ref" THEN JsonDict(h[h[top][k].v]) ELSE h[top][k]]

\* the address of the properties object of the record at top, "" when its
\* properties are no record
PropertiesOf(h, top) ==
    IF "properties" \in DOMAIN h[top] /\ h[top]["properties"].t = "ref"
    THEN h[top]["properties"].v
    ELSE ""

\* copy.deepcopy(component), line 35: the copy at address to shares no
\* object with the record at address from
DeepCopy_Shallow(h, from, to) == (to :> h[from]) @@ h
DeepCopy(h, from, to) == Objects(Value(h, from), to) @@ h

\* lines 37-114 write in place: component[key] = ... and del component[...]
\* write the record at top, properties[...] = ... writes its properties
\* object; value is what the record reads as afterwards
StoreInPlace(h, top, value) ==
    IF PropertiesOf(h, top) = "" THEN [h EXCEPT ![top] = value]
    ELSE [h EXCEPT ![top] = DictSet(value, "properties", Ref(PropertiesOf(h, top))),
                   ![PropertiesOf(h, top)] = value["properties"].v]

\* clean_unsupported_metadata on the heap: the entity is copied and the copy
\* is cleaned in place
CleanObjects(h) ==
    StoreInPlace(DeepCopy(h, "entity", "cleaned_entity"), "cleaned_entity",
                 CleanUnsupportedMetadata(Value(DeepCopy(h, "entity", "cleaned_entity"),
                                                "cleaned_entity")))

----------------------------------------------------------------------------
(* The components clean_unsupported_metadata is called with *)

\* values of every JSON type, numbers and booleans nested in a list and in
\* a record among them
TopValues ==
    {JsonStr("s"), JsonInt(5), JsonInt(0), JsonFloat(1, 5), JsonBool(TRUE), JsonBool(FALSE),
     JsonNull, JsonList(<<JsonInt(80), JsonBool(FALSE), JsonFloat(0, 5)>>),
     JsonDict([restarts |-> JsonInt(2), ok |-> JsonBool(TRUE)])}

\* an entity with a field of every type
FullEntity ==
    [entityId |-> JsonStr("PROCESS-1"), displayName |-> JsonStr("p1"),
     count |-> JsonInt(5), ratio |-> JsonFloat(1, 5), flag |-> JsonBool(TRUE),
     firstSeen |-> JsonNull,
     ports |-> JsonList(<<JsonInt(80), JsonBool(FALSE), JsonFloat(0, 5)>>),
     monitoringState |-> JsonDict([restarts |-> JsonInt(2), ok |-> JsonBool(TRUE)])]

\* entries of a customPgMetadata list: records with a plain key, a nested
\* key, a key that is no string, no key, val for value, and two entries
\* that are no record
MetadataItems ==
    {JsonDict([key |-> JsonStr("a"), value |-> JsonInt(1)]),
     JsonDict([key |-> JsonStr("a"), value |-> JsonInt(2)]),
     JsonDict([key |-> JsonDict([key |-> JsonStr("a")]), val |-> JsonStr("n")]),
     JsonDict([key |-> JsonInt(1), value |-> JsonStr("i")]),
     JsonDict([key |-> JsonStr("1"), value |-> JsonNull]),
     JsonDict([value |-> JsonStr("v")]),
     JsonStr("x"),
     JsonInt(7)}

MetadataLists == UNION {[1..n -> MetadataItems] : n \in 0..MaxItems}

\* what properties.customPgMetadata may hold
MetadataValues ==
    {JsonList(items) : items \in MetadataLists}
    \cup {JsonStr("stale"), JsonNull, JsonDict([a |-> JsonInt(1)])}

\* properties sub-objects with the other special-cased fields
OtherProperties ==
    {[releasesVersion |-> JsonStr("1.0"),
      osServices |-> JsonList(<<JsonDict([k \in {"dt.osservice.display_name"} |-> JsonStr("cron")]),
                                JsonStr("sshd"), JsonInt(7)>>)],
     [releasesVersion |-> JsonDict([v |-> JsonStr("1.0")]),
      logFileStatus |-> JsonList(<<JsonStr("ok")>>),
      logSourceState |-> JsonStr("on")],
     [logFileStatus |-> JsonDict([s |-> JsonInt(1)]), logSourceState |-> JsonList(<<>>),
      osServices |-> JsonStr("none")]}

Entities ==
    {DictSet(FullEntity, "extra", x) : x \in TopValues}
    \cup {DictSet(DictSet(FullEntity, "extra", x), "lastSeenTimestamp", JsonInt(170)) :
            x \in TopValues}
    \cup {DictSet(FullEntity, "properties", JsonDict([customPgMetadata |-> m])) :
            m \in MetadataValues}
    \cup {DictSet(FullEntity, "properties", JsonDict(p)) : p \in OtherProperties}
    \cup {DictSet(FullEntity, "properties", JsonStr("none"))}

\* a caller calls clean_unsupported_metadata(entity): lines 35-116
CleanCall ==
    /\ npc = "called"
    /\ coerced' = CoerceScalars(entity)
    /\ cleaned' = CleanUnsupportedMetadata(entity)
    /\ npc' = "returned"
    /\ heap' = CleanObjects(heap)
    /\ UNCHANGED entity
    /\ UNCHANGED <<authVars, staticVars, fetchVars, topoVars>>

----------------------------------------------------------------------------
(* process_entity_to_component and the functions it calls *)

\* d.pop(key, None) on a mapping modelled as a function: what is left
DictDel(d, key) == [k \in DOMAIN d \ {key} |-> d[k]]

\* what a function returns, or the exception it raises
Returned_(val) == [raised |-> "", val |-> val]
Raised_(exc) == [raised |-> exc, val |-> <<>>]

\* create_component_identifier: f"urn:dynatrace:/{entity_id}"
CreateComponentIdentifier_NoId(entity_id) == JsonStr("urn:dynatrace:/")
CreateComponentIdentifier(entity_id) == JsonStr("urn:dynatrace:/" \o PyStr(entity_id))

\* `for x in value` raises TypeError on None; a number or a boolean cannot
\* be met at the top level after the coercion of lines 37-44
Iterable(x) == x.t \in {"list", "str", "dict"}

\* the elements a loop over value meets: those of a list; the characters of
\* a string and the keys of a record are strings, which the loops that look
\* for records pass over
Elements(x) == IF x.t = "list" THEN x.v ELSE <<>>

\* extract_tags, lines 133-147: the label of one tag record; `tag_label +=
\* key` raises TypeError when key is truthy and no string
TagLabel(tag) ==
    LET context == Get(tag, "context")
        key == Get(tag, "key")
        value == Get(tag, "value")
        ctx == IF PyTruthy(context) /\ context /= JsonStr("CONTEXTLESS")
               THEN "[" \o PyStr(context) \o "]" ELSE ""
        val == IF PyTruthy(value) THEN ":" \o PyStr(value) ELSE ""
    IN  IF PyTruthy(key) /\ key.t /= "str" THEN Raised_("TypeError")
        ELSE Returned_(ctx \o (IF PyTruthy(key) THEN key.v ELSE "") \o val)

\* extract_tags, lines 129-147 over the first n tags: non-records and empty
\* labels are passed over
RECURSIVE TagLabels(_, _)
TagLabels(entity_tags, n) ==
    IF n = 0 THEN Returned_(<<>>)
    ELSE LET before == TagLabels(entity_tags, n - 1)
             tag == entity_tags[n]
         IN  IF before.raised /= "" THEN before
             ELSE IF tag.t /= "dict" THEN before
             ELSE IF TagLabel(tag).raised /= "" THEN TagLabel(tag)
             ELSE IF TagLabel(tag).val = "" THEN before
             ELSE Returned_(Append(before.val, JsonStr(TagLabel(tag).val)))

\* extract_tags(entity)
ExtractTags(c) ==
    LET entity_tags == GetOr(JsonDict(c), "tags", JsonList(<<>>))
    IN  IF ~Iterable(entity_tags) THEN Raised_("TypeError")
        ELSE TagLabels(Elements(entity_tags), Len(Elements(entity_tags)))

\* extract_management_zones, lines 157-161 over the first n zones
RECURSIVE ZoneLabels(_, _)
ZoneLabels(zones, n) ==
    IF n = 0 THEN <<>>
    ELSE IF zones[n].t = "dict" /\ PyTruthy(Get(zones[n], "name"))
    THEN Append(ZoneLabels(zones, n - 1),
                JsonStr("managementZones:" \o PyStr(Get(zones[n], "name"))))
    ELSE ZoneLabels(zones, n - 1)

\* extract_management_zones(entity)
ExtractManagementZones(c) ==
    LET management_zones == GetOr(JsonDict(c), "managementZones", JsonList(<<>>))
    IN  IF ~Iterable(management_zones) THEN Raised_("TypeError")
        ELSE Returned_(ZoneLabels(Elements(management_zones), Len(Elements(management_zones))))

\* ":".join(parts) of the parts left after filter(None, parts)
RECURSIVE Join(_)
Join(parts) ==
    IF parts = <<>> THEN ""
    ELSE IF Len(parts) = 1 THEN parts[1].v
    ELSE parts[1].v \o ":" \o Join(Tail(parts))

\* lines 257-264: the label of one software technology; join raises
\* TypeError on a part that is truthy and no string
TechLabel(tech) ==
    LET tech_parts == <<Get(tech, "type"), Get(tech, "edition"), Get(tech, "version")>>
        kept == SelectSeq(tech_parts, PyTruthy)
    IN  IF \E j \in DOMAIN kept : kept[j].t /= "str" THEN Raised_("TypeError")
        ELSE Returned_(Join(kept))

\* lines 255-264 over the first n technologies
RECURSIVE TechLabels(_, _)
TechLabels(techs, n) ==
    IF n = 0 THEN Returned_(<<>>)
    ELSE LET before == TechLabels(techs, n - 1)
             tech == techs[n]
         IN  IF before.raised /= "" THEN before
             ELSE IF tech.t /= "dict" THEN before
             ELSE IF TechLabel(tech).raised /= "" THEN TechLabel(tech)
             ELSE IF TechLabel(tech).val = "" THEN before
             ELSE Returned_(Append(before.val, JsonStr(TechLabel(tech).val)))

\* lines 253-264: the labels of cleaned_entity["softwareTechnologies"],
\* whatever the component type
SoftwareTechLabels_ProcessGroupOnly(c, ctype) ==
    LET software_techs == GetOr(JsonDict(c), "softwareTechnologies", JsonList(<<>>))
    IN  IF ctype /= "process-group" \/ ~PyTruthy(software_techs) THEN Returned_(<<>>)
        ELSE TechLabels(Elements(software_techs), Len(Elements(software_techs)))
SoftwareTechLabels(c, ctype) ==
    LET software_techs == GetOr(JsonDict(c), "softwareTechnologies", JsonList(<<>>))
    IN  IF ~PyTruthy(software_techs) THEN Returned_(<<>>)
        ELSE TechLabels(Elements(software_techs), Len(Elements(software_techs)))

\* lines 267-274: the labels of cleaned_entity["monitoringState"], whatever
\* the component type
MonitoringLabels(c, ctype) ==
    LET monitoring_state == Get(JsonDict(c), "monitoringState")
        actual_state == Get(monitoring_state, "actualMonitoringState")
        expected_state == Get(monitoring_state, "expectedMonitoringState")
    IN  IF monitoring_state.t /= "dict" THEN <<>>
        ELSE (IF PyTruthy(actual_state)
              THEN <<JsonStr("actualMonitoringState:" \o PyStr(actual_state))>> ELSE <<>>)
             \o (IF PyTruthy(expected_state)
                 THEN <<JsonStr("expectedMonitoringState:" \o PyStr(expected_state))>> ELSE <<>>)

\* normalize_process_group_v2_to_v1, lines 193-206: key_mapping
KeyMapping ==
    [k \in {"COMMAND_LINE_ARGS", "EXE_NAME", "EXE_PATH", "JAVA_MAIN_CLASS",
            "CONTAINER_IMAGE_NAME", "CONTAINER_IMAGE_VERSION", "CONTAINER_NAME",
            "ELASTIC_SEARCH_CLUSTER_NAMES", "ELASTIC_SEARCH_NODE_NAMES",
            "PG_ID_CALC_INPUT_KEY_LINKAGE", "JAVA_JAR_FILE", "JAVA_JAR_PATH"} |->
        CASE k = "COMMAND_LINE_ARGS" -> "commandLineArgs"
          [] k = "EXE_NAME" -> "executables"
          [] k = "EXE_PATH" -> "executablePaths"
          [] k = "JAVA_MAIN_CLASS" -> "javaMainClasses"
          [] k = "CONTAINER_IMAGE_NAME" -> "containerImageNames"
          [] k = "CONTAINER_IMAGE_VERSION" -> "containerImageVersions"
          [] k = "CONTAINER_NAME" -> "containerNames"
          [] k = "ELASTIC_SEARCH_CLUSTER_NAMES" -> "elasticSearchClusterNames"
          [] k = "ELASTIC_SEARCH_NODE_NAMES" -> "elasticSearchNodeNames"
          [] k = "PG_ID_CALC_INPUT_KEY_LINKAGE" -> "pgIdCalcInputKeyLinkage"
          [] k = "JAVA_JAR_FILE" -> "javaJarFiles"
          [] k = "JAVA_JAR_PATH" -> "javaJarPaths"]

\* lines 215-217: key_mapping.get(raw_key), or raw_key itself; the key of
\* an entry is a string here (a record or a list as key is unhashable and
\* raises before, see FoldMetadata; a number as key would be entered as
\* itself, and no entry modelled carries one)
TargetKey(raw_key) == IF raw_key \in DOMAIN KeyMapping THEN KeyMapping[raw_key] ELSE raw_key

\* lines 218-221: meta_out after one entry with a key: the key is entered
\* with an empty array, and a value that is not None is appended to it
MetaOutAdd_Overwrite(meta_out, target_key, value) ==
    DictSet(meta_out, target_key, IF value = JsonNull THEN <<>> ELSE <<value>>)
MetaOutAdd(meta_out, target_key, value) ==
    LET old == IF target_key \in DOMAIN meta_out THEN meta_out[target_key] ELSE <<>>
    IN  DictSet(meta_out, target_key, IF value = JsonNull THEN old ELSE Append(old, value))

\* lines 208-221 over the first n entries: entries that are no record or
\* have no key are passed over; key_mapping.get raises TypeError on a key
\* that is a record or a list
RECURSIVE FoldMetadata(_, _)
FoldMetadata(metadata_entries, n) ==
    IF n = 0 THEN Returned_(NoParams)
    ELSE LET before == FoldMetadata(metadata_entries, n - 1)
             entry == metadata_entries[n]
             raw_key == Get(entry, "key")
             value == Get(entry, "value")
         IN  IF before.raised /= "" THEN before
             ELSE IF entry.t /= "dict" THEN before
             ELSE IF ~PyTruthy(raw_key) THEN before
             ELSE IF raw_key.t \in {"dict", "list"} THEN Raised_("TypeError")
             ELSE Returned_(MetaOutAdd(before.val, TargetKey(raw_key.v), value))

\* meta_out as the JSON record of arrays it is
MetaOutValue(meta_out) == JsonDict([k \in DOMAIN meta_out |-> JsonList(meta_out[k])])

\* lines 176-183: properties.pop(field, None), hoisted to the top level when
\* it is a non-empty list
Hoist(d, properties, field) ==
    IF field \in DOMAIN properties /\ properties[field].t = "list"
       /\ PyTruthy(properties[field])
    THEN DictSet(d, field, properties[field])
    ELSE d

\* lines 186-188: detectedName becomes discoveredName when there is none
MapDetectedName(d, properties) ==
    IF PyTruthy(Get(JsonDict(properties), "detectedName"))
       /\ ~PyTruthy(Get(JsonDict(d), "discoveredName"))
    THEN DictSet(d, "discoveredName", properties["detectedName"])
    ELSE d

\* lines 191-223: the metadata entries become data["metadata"], unless
\* meta_out stays empty
HoistMetadata(d, properties) ==
    LET metadata_entries == Get(JsonDict(properties), "metadata")
        fold == FoldMetadata(metadata_entries.v, Len(metadata_entries.v))
    IN  IF ~(PyTruthy(metadata_entries) /\ metadata_entries.t = "list") THEN Returned_(d)
        ELSE IF fold.raised /= "" THEN fold
        ELSE IF DOMAIN fold.val = {} THEN Returned_(d)
        ELSE Returned_(DictSet(d, "metadata", MetaOutValue(fold.val)))

\* normalize_process_group_v2_to_v1(data): properties is data's own record,
\* so the three pops change data["properties"] as well
NormalizeProcessGroupV2ToV1(d) ==
    LET given == Get(JsonDict(d), "properties")
        properties == given.v
        popped == DictDel(DictDel(DictDel(properties, "listenPorts"),
                                  "softwareTechnologies"), "metadata")
        hoisted == MapDetectedName(
                       Hoist(Hoist(DictSet(d, "properties", JsonDict(popped)),
                                   properties, "listenPorts"),
                             properties, "softwareTechnologies"),
                       properties)
    IN  IF ~PyTruthy(given) THEN Returned_(d)
        ELSE IF given.t /= "dict" THEN Returned_(d)
        ELSE HoistMetadata(hoisted, properties)

\* lines 244-274: tags, once the four label lists are there: the tag
\* labels, the zone labels, the entity id if it is truthy, the technology
\* labels and the monitoring-state labels
TagList_IdBeforeZones(tag_labels, zone_labels, entity_id, tech_labels, state_labels) ==
    tag_labels \o (IF PyTruthy(entity_id) THEN <<entity_id>> ELSE <<>>) \o zone_labels
    \o tech_labels \o state_labels
TagList(tag_labels, zone_labels, entity_id, tech_labels, state_labels) ==
    tag_labels \o zone_labels \o (IF PyTruthy(entity_id) THEN <<entity_id>> ELSE <<>>)
    \o tech_labels \o state_labels

\* lines 277-283: a copy of cleaned_entity without the relationship fields
\* and the raw tags
ComponentData_KeepRelationships(cleaned_entity) == DictDel(cleaned_entity, "tags")
ComponentData(cleaned_entity) ==
    DictDel(DictDel(DictDel(cleaned_entity, "fromRelationships"), "toRelationships"), "tags")

\* lines 290-294: component_data.update({...})
AddTopologyMetadata(component_data, identifiers, tags, ctype) ==
    DictSet(DictSet(DictSet(component_data, "identifiers", JsonList(identifiers)),
                    "tags", JsonList(tags)),
            "component_type", JsonStr(ctype))

\* lines 296-303: what process_entity_to_component returns
Processed(cleaned_entity, entity_id, ctype, component_data) ==
    Returned_([entityId |-> entity_id,
               displayName |-> GetOr(JsonDict(cleaned_entity), "displayName", entity_id),
               component_type |-> ctype,
               component |-> component_data,
               fromRelationships |-> GetOr(JsonDict(cleaned_entity), "fromRelationships", EmptyDict),
               toRelationships |-> GetOr(JsonDict(cleaned_entity), "toRelationships", EmptyDict)])

\* lines 236-303, cleaned_entity being there
ProcessCleaned(cleaned_entity, ctype) ==
    LET entity_id == GetOr(JsonDict(cleaned_entity), "entityId", JsonStr(""))
        identifiers == <<CreateComponentIdentifier(entity_id)>>
        tag_labels == ExtractTags(cleaned_entity)
        zone_labels == ExtractManagementZones(cleaned_entity)
        tech_labels == SoftwareTechLabels(cleaned_entity, ctype)
        state_labels == MonitoringLabels(cleaned_entity, ctype)
        component_data == ComponentData(cleaned_entity)
        normalized == IF ctype = "process-group"
                      THEN NormalizeProcessGroupV2ToV1(component_data)
                      ELSE Returned_(component_data)
    IN  IF tag_labels.raised /= "" THEN tag_labels
        ELSE IF zone_labels.raised /= "" THEN zone_labels
        ELSE IF tech_labels.raised /= "" THEN tech_labels
        ELSE IF normalized.raised /= "" THEN normalized
        ELSE Processed(cleaned_entity, entity_id, ctype,
                       AddTopologyMetadata(normalized.val, identifiers,
                           TagList(tag_labels.val, zone_labels.val, entity_id,
                                   tech_labels.val, state_labels),
                           ctype))

\* process_entity_to_component(entity, component_type): component.keys()
\* (line 37) raises AttributeError when the entity is no record
ProcessEntityToComponent(e, ctype) ==
    IF e.t /= "dict" THEN Raised_("AttributeError")
    ELSE ProcessCleaned(CleanUnsupportedMetadata(e.v), ctype)

----------------------------------------------------------------------------
(* process_entity_to_component on the dict objects *)

\* line 286 is reached for a process-group when none of lines 244-266 raised
NormalizeReached(cleaned_entity, ctype) ==
    /\ ctype = "process-group"
    /\ ExtractTags(cleaned_entity).raised = ""
    /\ ExtractManagementZones(cleaned_entity).raised = ""
    /\ SoftwareTechLabels(cleaned_entity, ctype).raised = ""

\* lines 176, 181 and 191: component_data.update(cleaned_entity) of line 278
\* copies the fields only, so data["properties"] is the properties object
\* of cleaned_entity, and the three pops write it
PopProperties(h, top) ==
    IF PropertiesOf(h, top) = "" THEN h
    ELSE [h EXCEPT ![PropertiesOf(h, top)] =
              DictDel(DictDel(DictDel(@, "listenPorts"), "softwareTechnologies"), "metadata")]

\* process_entity_to_component on the heap; component_data, the lists and
\* the result are new objects
ProcessObjects(h, ctype) ==
    IF NormalizeReached(Value(CleanObjects(h), "cleaned_entity"), ctype)
    THEN PopProperties(CleanObjects(h), "cleaned_entity")
    ELSE CleanObjects(h)

----------------------------------------------------------------------------
(* process_topology *)

\* str.lower() on the characters of a file name
UpperCase == <<"A", "B", "C", "D", "E", "F", "G", "H", "I", "J", "K", "L", "M", "N", "O", "P", "Q", "R", "S", "T", "U", "V", "W", "X", "Y", "Z">>
LowerCase == <<"a", "b", "c", "d", "e", "f", "g", "h", "i", "j", "k", "l", "m", "n", "o", "p", "q", "r", "s", "t", "u", "v", "w", "x", "y", "z">>
LowerChar(ch) ==
    IF \E j \in DOMAIN UpperCase : UpperCase[j] = ch
    THEN LowerCase[CHOOSE j \in DOMAIN UpperCase : UpperCase[j] = ch]
    ELSE ch
Lower(name) == [j \in DOMAIN name |-> LowerChar(name[j])]

\* `sub in name` on sequences of characters
Contains(sub, name) ==
    \E j \in 1..(Len(name) - Len(sub) + 1) : SubSeq(name, j, j + Len(sub) - 1) = sub

\* lines 321-328: the component type when the caller gives none (None or
\* "", both falsy), decided by the lower-cased file name
DetectComponentType_GroupFirst(name) ==
    IF Contains(<<"p", "r", "o", "c", "e", "s", "s", "-", "g", "r", "o", "u", "p">>, Lower(name)) THEN "process-group"
    ELSE IF Contains(<<"p", "r", "o", "c", "e", "s", "s">>, Lower(name)) THEN "process"
    ELSE "entity"
DetectComponentType(name) ==
    IF Contains(<<"p", "r", "o", "c", "e", "s", "s">>, Lower(name))
       /\ ~Contains(<<"g", "r", "o", "u", "p">>, Lower(name))
    THEN "process"
    ELSE IF Contains(<<"p", "r", "o", "c", "e", "s", "s", "-", "g", "r", "o", "u", "p">>, Lower(name)) THEN "process-group"
    ELSE "entity"

\* lines 321-328
ResolveComponentType(given, name) ==
    IF Truthy(given) THEN given ELSE DetectComponentType(name)

\* extract_entities_from_json(data)
ExtractEntitiesFromJson(d) ==
    IF d.t = "list" THEN d
    ELSE IF d.t = "dict" THEN GetOr(d, "entities", JsonList(<<>>))
    ELSE JsonList(<<>>)

\* the order in which .items() yields the relation types of a record: that
\* of the document, which lists them in this order
RelationTypes == <<"runsOn", "isInstanceOf", "calls">>
ItemKeys(rels) == SelectSeq(RelationTypes, LAMBDA k : k \in DOMAIN rels.v)

\* lines 349 and 362: the id of a target or source descriptor
DescriptorId(x) == IF x.t = "dict" THEN Get(x, "id") ELSE x

\* lines 351-355 and 364-368: the edge between the entity and the other id
Edge_Reversed(entity_id, other_id, rel_type, outgoing) ==
    [source |-> IF outgoing THEN other_id ELSE entity_id,
     target |-> IF outgoing THEN entity_id ELSE other_id,
     type |-> rel_type]
Edge(entity_id, other_id, rel_type, outgoing) ==
    [source |-> IF outgoing THEN entity_id ELSE other_id,
     target |-> IF outgoing THEN other_id ELSE entity_id,
     type |-> rel_type]

\* lines 348-355 and 361-368 over the first n descriptors of one relation
\* type: a descriptor without a truthy id gives no edge
RECURSIVE TypeEdges(_, _, _, _, _)
TypeEdges(entity_id, rel_type, others, n, outgoing) ==
    IF n = 0 THEN <<>>
    ELSE IF PyTruthy(DescriptorId(others[n]))
    THEN Append(TypeEdges(entity_id, rel_type, others, n - 1, outgoing),
                Edge(entity_id, DescriptorId(others[n]), rel_type, outgoing))
    ELSE TypeEdges(entity_id, rel_type, others, n - 1, outgoing)

\* lines 345-355 and 358-368 over the first n relation types: a type whose
\* value is no list is passed over
RECURSIVE MapEdges(_, _, _, _, _)
MapEdges(entity_id, rels, keys, n, outgoing) ==
    IF n = 0 THEN <<>>
    ELSE MapEdges(entity_id, rels, keys, n - 1, outgoing)
         \o (IF rels.v[keys[n]].t = "list"
             THEN TypeEdges(entity_id, keys[n], rels.v[keys[n]].v,
                            Len(rels.v[keys[n]].v), outgoing)
             ELSE <<>>)

\* lines 340-368: the relationships one processed entity adds, and the
\* AttributeError of .items() on a relationship field that is no record,
\* which is raised after the outgoing edges are appended when it is
\* toRelationships
CollectRelationships(p) ==
    LET from_rels == p.fromRelationships
        to_rels == p.toRelationships
        outgoing == MapEdges(p.entityId, from_rels, ItemKeys(from_rels),
                             Len(ItemKeys(from_rels)), TRUE)
        incoming == MapEdges(p.entityId, to_rels, ItemKeys(to_rels),
                             Len(ItemKeys(to_rels)), FALSE)
    IN  IF from_rels.t /= "dict" THEN [raised |-> "AttributeError", val |-> <<>>]
        ELSE IF to_rels.t /= "dict" THEN [raised |-> "AttributeError", val |-> outgoing]
        ELSE [raised |-> "", val |-> outgoing \o incoming]

\* lines 378-388
Topology_CountsEntities(name, type, time, comps, rels) ==
    [metadata |-> [source_file |-> name, component_type |-> type, timestamp |-> time,
                   component_count |-> Len(comps) + Len(rels), relationship_count |-> Len(rels)],
     components |-> comps,
     relationships |-> rels]
Topology(name, type, time, comps, rels) ==
    [metadata |-> [source_file |-> name, component_type |-> type, timestamp |-> time,
                   component_count |-> Len(comps), relationship_count |-> Len(rels)],
     components |-> comps,
     relationships |-> rels]

NoTopology == [metadata |-> NoParams, components |-> <<>>, relationships |-> <<>>]
NoProcessed == Raised_("none")

----------------------------------------------------------------------------
(* The entities process_entity_to_component and process_topology are given *)

\* the component types a caller passes (--component-type offers the first
\* three)
ComponentTypes == {"process", "process-group", "entity", "host"}

\* entries of a process-group properties.metadata list: two values under
\* one raw key, a raw key that is its own target, a key outside the table,
\* a null value, no key, no record, and a record as key
MetadataEntries ==
    {JsonDict([key |-> JsonStr("EXE_NAME"), value |-> JsonStr("x")]),
     JsonDict([key |-> JsonStr("EXE_NAME"), value |-> JsonStr("y")]),
     JsonDict([key |-> JsonStr("executables"), value |-> JsonStr("z")]),
     JsonDict([key |-> JsonStr("CUSTOM"), value |-> JsonInt(1)]),
     JsonDict([key |-> JsonStr("EXE_PATH"), value |-> JsonNull]),
     JsonDict([value |-> JsonStr("v")]),
     JsonStr("s"),
     JsonDict([key |-> JsonDict([key |-> JsonStr("EXE_NAME")]), value |-> JsonStr("n")])}

MetadataEntryLists == UNION {[1..n -> MetadataEntries] : n \in 0..MaxItems}

\* an entity with raw fields of the names the component sets itself, tags,
\* zones, technologies and a monitoring state
TaggedEntity ==
    [entityId |-> JsonStr("E1"), displayName |-> JsonStr("e1"),
     identifiers |-> JsonList(<<JsonStr("raw")>>), component_type |-> JsonStr("raw"),
     tags |-> JsonList(<<JsonDict([context |-> JsonStr("CONTEXTLESS"), key |-> JsonStr("env"),
                                   value |-> JsonStr("prod")]),
                         JsonDict([context |-> JsonStr("AWS"), key |-> JsonStr("zone")]),
                         JsonStr("plain"),
                         JsonDict([value |-> JsonInt(3)])>>),
     managementZones |-> JsonList(<<JsonDict([id |-> JsonStr("1"), name |-> JsonStr("z1")]),
                                    JsonDict([id |-> JsonStr("2")])>>),
     softwareTechnologies |-> JsonList(<<JsonDict([type |-> JsonStr("JAVA"),
                                                   version |-> JsonStr("17")]),
                                         JsonDict([edition |-> JsonNull])>>),
     monitoringState |-> JsonDict([actualMonitoringState |-> JsonStr("ON"),
                                   expectedMonitoringState |-> JsonStr("OFF")]),
     fromRelationships |-> JsonDict([runsOn |-> JsonList(<<JsonDict([id |-> JsonStr("H1")])>>)]),
     toRelationships |-> JsonDict([isInstanceOf |-> JsonList(<<JsonStr("PG1")>>)]),
     lastSeenTimestamp |-> JsonInt(170)]

\* an entity of the v2 API, its process-group fields under properties
V2Entity(metadata) ==
    [entityId |-> JsonStr("PG1"), displayName |-> JsonStr("pg1"),
     metadata |-> JsonStr("raw"),
     properties |-> JsonDict([listenPorts |-> JsonList(<<JsonInt(80)>>),
                              softwareTechnologies |-> JsonList(<<>>),
                              detectedName |-> JsonStr("java"),
                              metadata |-> metadata])]

\* what properties.metadata may hold
MetadataFieldValues == {JsonList(s) : s \in MetadataEntryLists} \cup {JsonStr("none"), JsonNull}

\* entities whose fields make a step raise: tags that is null, a tag key
\* that is a number, zones that are null, a technology version that is a
\* number
RaisingEntities ==
    {[entityId |-> JsonStr("E4"), tags |-> JsonNull],
     [entityId |-> JsonStr("E4"), tags |-> JsonList(<<JsonDict([key |-> JsonInt(7)])>>)],
     [entityId |-> JsonStr("E4"), managementZones |-> JsonNull],
     [entityId |-> JsonStr("E4"),
      softwareTechnologies |-> JsonList(<<JsonDict([type |-> JsonStr("JAVA"),
                                                    version |-> JsonInt(17)])>>)]}

\* entities whose id is a number, the same number as a string, null, empty
\* or missing, entities whose properties are no record or empty, and an
\* entity with tag records and zones whose fields are empty
OtherEntities ==
    {[entityId |-> JsonStr("E8"),
      tags |-> JsonList(<<JsonDict([context |-> JsonStr("CONTEXTLESS")]),
                          JsonDict([context |-> JsonStr(""), key |-> JsonStr("k"),
                                    value |-> JsonInt(0)])>>),
      managementZones |-> JsonList(<<JsonDict([name |-> JsonStr("")]), JsonStr("z"),
                                     JsonDict([name |-> JsonStr("z2")])>>)],
     [entityId |-> JsonInt(5), tags |-> JsonStr("t"), managementZones |-> JsonInt(3)],
     [entityId |-> JsonStr("5"), softwareTechnologies |-> JsonStr("JAVA"),
      monitoringState |-> JsonStr("ON")],
     [entityId |-> JsonNull, displayName |-> JsonStr("null id")],
     [entityId |-> JsonStr(""), discoveredName |-> JsonStr("known"),
      properties |-> JsonDict([detectedName |-> JsonStr("java")])],
     [displayName |-> JsonStr("anonymous"), properties |-> JsonStr("none")],
     [entityId |-> JsonStr("E7"), properties |-> EmptyDict,
      monitoringState |-> JsonDict([actualMonitoringState |-> JsonStr("")])]}

ComponentEntities ==
    {TaggedEntity} \cup {V2Entity(m) : m \in MetadataFieldValues}
    \cup RaisingEntities \cup OtherEntities

\* the entries of an input collection: the examples of relationship
\* extraction, a relation type whose value is no list, descriptors without
\* id, an entity that raises while it is normalized, entities whose
\* relationship fields are no record, an entity without id that raises,
\* ids that differ as raw values only, and an entry that is no record
CollectionEntries ==
    {JsonDict([entityId |-> JsonStr("E1"),
               fromRelationships |-> JsonDict([runsOn |-> JsonList(<<JsonDict([id |-> JsonStr("H1")])>>)])]),
     JsonDict([entityId |-> JsonStr("E2"),
               toRelationships |-> JsonDict([isInstanceOf |-> JsonList(<<JsonStr("PG1")>>)])]),
     JsonDict([entityId |-> JsonStr("E3"),
               fromRelationships |->
                   JsonDict([runsOn |-> JsonList(<<JsonStr("H2"), JsonDict([name |-> JsonStr("x")]),
                                                   JsonStr(""), JsonDict([id |-> JsonStr("H1")])>>),
                             calls |-> JsonStr("E1")]),
               toRelationships |->
                   JsonDict([isInstanceOf |-> JsonDict([id |-> JsonStr("PG1")]),
                             calls |-> JsonList(<<JsonStr("E2")>>)])]),
     JsonDict([entityId |-> JsonStr("E4"), tags |-> JsonNull,
               fromRelationships |-> JsonDict([runsOn |-> JsonList(<<JsonStr("H1")>>)])]),
     JsonDict([entityId |-> JsonStr("E5"),
               fromRelationships |-> JsonDict([runsOn |-> JsonList(<<JsonStr("H1")>>)]),
               toRelationships |-> JsonNull]),
     JsonDict([entityId |-> JsonStr("E6"), fromRelationships |-> JsonList(<<JsonStr("H1")>>)]),
     JsonDict([displayName |-> JsonStr("anonymous"), managementZones |-> JsonNull]),
     JsonDict([entityId |-> JsonInt(5)]),
     JsonDict([entityId |-> JsonStr("5")]),
     JsonStr("E9")}

EntityLists == UNION {[1..n -> CollectionEntries] : n \in 0..MaxEntities}

\* the JSON documents read: an array of entities (v1), or a record with the
\* array under entities (v2), without it, or a bare string
Documents ==
    {JsonList(es) : es \in EntityLists}
    \cup {JsonDict([totalCount |-> JsonInt(Len(es)), entities |-> JsonList(es)]) : es \in EntityLists}
    \cup {JsonDict([totalCount |-> JsonInt(0)]), JsonStr("none")}

\* the names of the files read
FileNames ==
    {<<"p", "r", "o", "c", "e", "s", "s", ".", "j", "s", "o", "n">>,
     <<"P", "R", "O", "C", "E", "S", "S", "_", "v", "2", ".", "j", "s", "o", "n">>,
     <<"p", "r", "o", "c", "e", "s", "s", "-", "g", "r", "o", "u", "p", ".", "j", "s", "o", "n">>,
     <<"P", "r", "o", "c", "e", "s", "s", "-", "G", "r", "o", "u", "p", "s", ".", "j", "s", "o", "n">>,
     <<"p", "r", "o", "c", "e", "s", "s", "_", "g", "r", "o", "u", "p", ".", "j", "s", "o", "n">>,
     <<"g", "r", "o", "u", "p", "-", "p", "r", "o", "c", "e", "s", "s", ".", "j", "s", "o", "n">>,
     <<"h", "o", "s", "t", "s", ".", "j", "s", "o", "n">>}

\* the calls of process_topology: without a component type for every file
\* name, and with each component type for two of them
TopologyCalls ==
    {[component_type |-> None, input_file |-> f] : f \in FileNames}
    \cup {[component_type |-> t, input_file |-> f] :
            t \in ComponentTypes, f \in {<<"p", "r", "o", "c", "e", "s", "s", ".", "j", "s", "o", "n">>, <<"p", "r", "o", "c", "e", "s", "s", "-", "g", "r", "o", "u", "p", ".", "j", "s", "o", "n">>}}

----------------------------------------------------------------------------
(* The calls of process_entity_to_component and of process_topology *)

\* a caller calls process_entity_to_component(entity, component_type)
ProcessEntityCall ==
    /\ npc = "process_called"
    /\ coerced' = CoerceScalars(entity)
    /\ cleaned' = CleanUnsupportedMetadata(entity)
    /\ processed' = ProcessEntityToComponent(JsonDict(entity), component_type)
    /\ npc' = "processed"
    /\ heap' = ProcessObjects(heap, component_type)
    /\ UNCHANGED <<entity, component_type>>
    /\ UNCHANGED <<given_type, input_file, data, entities, components, relationships,
                   position, tpc, topology, warnings, comp_of, rel_of>>
    /\ UNCHANGED <<authVars, staticVars, fetchVars>>

\* process_topology, lines 310-332: the entities are extracted, the
\* component type is resolved and the two lists start empty
TopologyBegin ==
    /\ tpc = "called"
    /\ entities' = ExtractEntitiesFromJson(data).v
    /\ component_type' = ResolveComponentType(given_type, input_file)
    /\ components' = <<>>
    /\ relationships' = <<>>
    /\ position' = 1
    /\ tpc' = "loop"
    /\ UNCHANGED <<processed, given_type, input_file, data, topology, warnings, comp_of, rel_of>>
    /\ UNCHANGED <<authVars, staticVars, fetchVars, normVars>>

\* lines 369-372: the handler of the loop; entity.get raises AttributeError
\* when the entry is no record, and nothing catches that
TopologyHandler(e) ==
    IF e.t /= "dict"
    THEN /\ tpc' = "raised"
         /\ UNCHANGED <<warnings, position>>
    ELSE /\ warnings' = Append(warnings, [at |-> position,
                                          entity_id |-> GetOr(e, "entityId", JsonStr("UNKNOWN"))])
         /\ position' = position + 1
         /\ tpc' = "loop"

\* lines 334-372: one turn of the loop
TopologyEntity ==
    /\ tpc = "loop"
    /\ position <= Len(entities)
    /\ \E p \in {ProcessEntityToComponent(entities[position], component_type)} :
         /\ processed' = p
         /\ IF p.raised /= ""
            THEN /\ TopologyHandler(entities[position])
                 /\ UNCHANGED <<components, relationships, comp_of, rel_of>>
            ELSE \E r \in {CollectRelationships(p.val)} :
                   /\ components' = Append(components, p.val.component)
                   /\ comp_of' = Append(comp_of, position)
                   /\ relationships' = relationships \o r.val
                   /\ rel_of' = rel_of \o [j \in 1..Len(r.val) |-> position]
                   /\ IF r.raised /= ""
                      THEN TopologyHandler(entities[position])
                      ELSE /\ position' = position + 1
                           /\ UNCHANGED <<tpc, warnings>>
    /\ UNCHANGED <<component_type, given_type, input_file, data, entities, topology>>
    /\ UNCHANGED <<authVars, staticVars, fetchVars, normVars>>

\* lines 374-390: the loop is over and the topology is returned
TopologyReturn ==
    /\ tpc = "loop"
    /\ position > Len(entities)
    /\ topology' = Topology(input_file, component_type, now, components, relationships)
    /\ tpc' = "returned"
    /\ UNCHANGED <<processed, component_type, given_type, input_file, data, entities, components,
                   relationships, position, warnings, comp_of, rel_of>>
    /\ UNCHANGED <<authVars, staticVars, fetchVars, normVars>>

\* no topology is built
InitNoTopology ==
    /\ processed = NoProcessed
    /\ component_type = None
    /\ given_type = None
    /\ input_file = <<>>
    /\ data = JsonNull
    /\ entities = <<>>
    /\ components = <<>>
    /\ relationships = <<>>
    /\ position = 0
    /\ tpc = "idle"
    /\ topology = NoTopology
    /\ warnings = <<>>
    /\ comp_of = <<>>
    /\ rel_of = <<>>

\* no normalizer runs
InitNoNorm ==
    /\ entity = NoParams
    /\ coerced = NoParams
    /\ cleaned = NoParams
    /\ npc = "idle"
    /\ heap = NoHeap

----------------------------------------------------------------------------
InitFetch ==
    /\ pc = "idle"
    /\ fn = "none"
    /\ initial_params = NoParams
    /\ params = NoParams
    /\ headers = None
    /\ aggregated_items = <<>>
    /\ meta = NoMeta
    /\ page = 0
    /\ trace = <<>>
    /\ result = NoResult
    /\ fetches = 0

Init ==
    /\ InitFetch
    /\ InitNoNorm
    /\ InitNoTopology
    /\ token = None
    /\ expiry = ExpiredEpoch
    /\ now = StartTime
    /\ posts = 0
    /\ lastCall = NoCall
    /\ cached = NoCached
    /\ ctor_token = "dt0c01.A"
    /\ api_token = ctor_token
    /\ staticLog = <<>>

\* StaticTokenAuthenticator(api_token) constructed with any token
InitStatic ==
    /\ InitFetch
    /\ InitNoNorm
    /\ InitNoTopology
    /\ token = None
    /\ expiry = ExpiredEpoch
    /\ now = StartTime
    /\ posts = 0
    /\ lastCall = NoCall
    /\ cached = NoCached
    /\ ctor_token \in StaticTokens
    /\ api_token = ctor_token
    /\ staticLog = <<>>

\* the normalizer is called with any of the entities
InitNormalize ==
    /\ InitFetch
    /\ token = None
    /\ expiry = ExpiredEpoch
    /\ now = StartTime
    /\ posts = 0
    /\ lastCall = NoCall
    /\ cached = NoCached
    /\ ctor_token = "dt0c01.A"
    /\ api_token = ctor_token
    /\ staticLog = <<>>
    /\ entity \in Entities
    /\ coerced = NoParams
    /\ cleaned = NoParams
    /\ npc = "called"
    /\ heap = Objects(entity, "entity")
    /\ InitNoTopology

\* the authenticators and the fetchers are left as constructed
InitClientsIdle ==
    /\ InitFetch
    /\ token = None
    /\ expiry = ExpiredEpoch
    /\ now = StartTime
    /\ posts = 0
    /\ lastCall = NoCall
    /\ cached = NoCached
    /\ ctor_token = "dt0c01.A"
    /\ api_token = ctor_token
    /\ staticLog = <<>>

\* process_entity_to_component is called with any of the entities and any
\* component type
InitComponent ==
    /\ InitClientsIdle
    /\ entity \in ComponentEntities
    /\ coerced = NoParams
    /\ cleaned = NoParams
    /\ npc = "process_called"
    /\ heap = Objects(entity, "entity")
    /\ processed = NoProcessed
    /\ component_type \in ComponentTypes
    /\ given_type = None
    /\ input_file = <<>>
    /\ data = JsonNull
    /\ entities = <<>>
    /\ components = <<>>
    /\ relationships = <<>>
    /\ position = 0
    /\ tpc = "idle"
    /\ topology = NoTopology
    /\ warnings = <<>>
    /\ comp_of = <<>>
    /\ rel_of = <<>>

NextComponent == ProcessEntityCall

SpecComponent == InitComponent /\ [][NextComponent]_vars

\* process_topology is called with any document, file name and component
\* type
InitTopology ==
    /\ InitClientsIdle
    /\ InitNoNorm
    /\ processed = NoProcessed
    /\ \E call \in TopologyCalls :
         /\ component_type = call.component_type
         /\ given_type = call.component_type
         /\ input_file = call.input_file
    /\ data \in Documents
    /\ entities = <<>>
    /\ components = <<>>
    /\ relationships = <<>>
    /\ position = 0
    /\ tpc = "called"
    /\ topology = NoTopology
    /\ warnings = <<>>
    /\ comp_of = <<>>
    /\ rel_of = <<>>

NextTopology == TopologyBegin \/ TopologyEntity \/ TopologyReturn

SpecTopology == InitTopology /\ [][NextTopology]_vars

NextNormalize == CleanCall

SpecNormalize == InitNormalize /\ [][NextNormalize]_vars

NextAuth == GetTokenCall \/ InvalidateCall \/ Tick

SpecAuth == Init /\ [][NextAuth]_vars

NextStatic == StaticGetTokenCall \/ StaticInvalidateCall

\* between two fetches, the least time a token is cached passes
FetchTick ==
    /\ pc = "idle"
    /\ now < MaxTime
    /\ now' = now + MinCacheSeconds
    /\ UNCHANGED <<token, expiry, posts, lastCall, cached>>
    /\ UNCHANGED <<staticVars, fetchVars, normVars, topoVars>>

NextFetch ==
    \/ FetchJsonCall \/ V1Begin \/ V1Page
    \/ EntitiesBegin \/ EntitiesPage
    \/ PageTick \/ FetchReset \/ FetchTick

SpecFetch == Init /\ [][NextFetch]_vars

SpecStatic == InitStatic /\ [][NextStatic]_vars

NextStaticFetch == StaticFetchJsonCall \/ StaticV1Begin \/ StaticV1Page \/ FetchReset

\* the static-token client of main_static_token.py
SpecStaticFetch == InitStatic /\ [][NextStaticFetch]_vars

\* a caller of both clients
SpecClients == Init /\ [][NextFetch \/ NextStaticFetch]_vars

----------------------------------------------------------------------------
(* JwtAuthenticator: the claims, checked under SpecAuth *)

\* C1: once a token is cached, a get_token call entered strictly before the
\* cached expiry (no invalidate since the exchange, so the token is still
\* there) returns that same token, makes no POST and leaves token and expiry
\* as they were.
C1_CachedTokenReused ==
    [][(GetTokenCall /\ token /= None /\ now < expiry)
         => /\ lastCall'.ret = token
            /\ lastCall'.raised = ""
            /\ posts' = posts
            /\ token' = token
            /\ expiry' = expiry]_vars

\* a get_token call has just returned the cached token, before its expiry
C1_Witness ==
    /\ lastCall.op = "get_token"
    /\ lastCall.entry = "cached"
    /\ lastCall.posted = 0
    /\ lastCall.ret = token
    /\ token /= None
    /\ now < expiry
    /\ now > cached.at

\* C2: a get_token call entered with no token cached, or at or past the
\* cached expiry, makes exactly one POST; when it returns a token, that is
\* the token this POST handed out, now cached, and not the one cached before.
C2_RefreshWhenMissingOrExpired ==
    [][(GetTokenCall /\ (token = None \/ now >= expiry))
         => /\ posts' = posts + 1
            /\ lastCall'.posted = 1
            /\ lastCall'.ret /= None
                 => /\ lastCall'.ret = TokenOf(posts')
                    /\ lastCall'.ret = lastCall'.granted
                    /\ lastCall'.ret /= token
                    /\ token' = lastCall'.ret]_vars

\* a get_token call found a cached token at or past its expiry and returned
\* the token of a new exchange
C2_Witness ==
    /\ lastCall.op = "get_token"
    /\ lastCall.entry = "cached"
    /\ lastCall.posted = 1
    /\ lastCall.ret = TokenOf(posts)
    /\ posts >= 2

\* C3: invalidate leaves no cached token and an expiry (0) in the past, and
\* the first get_token after it makes exactly one POST, however little time
\* has passed since the last exchange.
C3_InvalidateForcesRefresh ==
    [][/\ InvalidateCall => (token' = None /\ expiry' = 0 /\ expiry' < now')
       /\ (GetTokenCall /\ lastCall.op = "invalidate")
            => (posts' = posts + 1 /\ lastCall'.posted = 1)]_vars

\* a token was exchanged, invalidated, and exchanged again, all within the
\* first token's cache time
C3_Witness ==
    /\ lastCall.op = "get_token"
    /\ lastCall.entry = "invalidated"
    /\ lastCall.posted = 1
    /\ lastCall.ret = TokenOf(2)
    /\ now < MinCacheSeconds

\* C4: while a token is cached, the expiry is the time of its exchange plus
\* max(L - 30, 30), L being the lifetime the server declared (300 when it
\* declared none).
C4_ExpiryFormula ==
    token /= None =>
        LET L == IF cached.declared THEN cached.lifetime ELSE 300
        IN  /\ cached.at <= now
            /\ expiry = cached.at + (IF L - 30 >= 30 THEN L - 30 ELSE 30)

\* a token with a declared lifetime over 60 seconds was exchanged by the
\* call that has just returned
C4_Witness ==
    /\ lastCall.op = "get_token"
    /\ lastCall.posted = 1
    /\ lastCall.ret = token
    /\ token /= None
    /\ cached.declared
    /\ cached.lifetime > 60
    /\ cached.at = now

\* C5, as claimed: get_token never returns the cached token at a time later
\* than its exchange time plus the lifetime L the server declared.
C5_NeverPastLifetime ==
    [][(GetTokenCall /\ posts' = posts /\ lastCall'.ret /= None /\ cached.declared)
         => now <= cached.at + cached.lifetime]_vars

\* C5, amended: for every declared lifetime L >= 30, get_token never returns
\* the cached token at a time later than its exchange time plus L.
C5_NeverPastLifetimeFrom30 ==
    [][(GetTokenCall /\ posts' = posts /\ lastCall'.ret /= None /\ cached.declared
          /\ cached.lifetime >= 30)
         => now <= cached.at + cached.lifetime]_vars

\* the cached token of a declared lifetime of at least 30 seconds has been
\* returned some time after its exchange
C5_Witness ==
    /\ lastCall.op = "get_token"
    /\ lastCall.posted = 0
    /\ lastCall.ret = token
    /\ token /= None
    /\ cached.declared
    /\ cached.lifetime >= 30
    /\ now >= cached.at + 20

\* C6: a get_token call whose POST yields no usable access token (an HTTP
\* error, no access_token, or an empty one) raises, returns no token and
\* leaves token and expiry as they were; the next get_token makes a POST
\* again.
C6_FailedExchangeKeepsState ==
    [][/\ (GetTokenCall /\ lastCall'.posted = 1 /\ lastCall'.granted \in {None, ""})
            => /\ lastCall'.raised /= ""
               /\ lastCall'.ret = None
               /\ token' = token
               /\ expiry' = expiry
       /\ (GetTokenCall /\ lastCall.op = "get_token" /\ lastCall.posted = 1
             /\ lastCall.granted \in {None, ""})
            => lastCall'.posted = 1]_vars

\* an exchange answered with an empty access token has failed, and so did
\* the call before it: the exchange was attempted again
C6_Witness ==
    /\ lastCall.op = "get_token"
    /\ lastCall.entry = "raised"
    /\ lastCall.posted = 1
    /\ lastCall.granted = ""
    /\ lastCall.raised = "RuntimeError"
    /\ posts >= 2

----------------------------------------------------------------------------
(* fetch_json and fetch_paginated_v1 with a JwtAuthenticator: the claims,   *)
(* checked under SpecFetch                                                  *)

\* the GET events of the trace, and those of page pg
Gets == SelectSeq(trace, LAMBDA ev : ev.e = "GET")
PageGets(pg) == SelectSeq(trace, LAMBDA ev : ev.e = "GET" /\ ev.page = pg)
PageInvalidates(pg) == SelectSeq(trace, LAMBDA ev : ev.e = "invalidate" /\ ev.page = pg)

\* a GET answered with a 2xx status and a body that parses
Accepted(ev) == ev.e = "GET" /\ ev.status = 200 /\ ev.body.kind /= "invalid"

\* the records of the accepted answers among the first n events, in order
RECURSIVE AcceptedItems(_)
AcceptedItems(n) ==
    IF n = 0 THEN <<>>
    ELSE IF ~Accepted(trace[n]) THEN AcceptedItems(n - 1)
    ELSE IF trace[n].body.kind = "list" THEN AcceptedItems(n - 1) \o trace[n].body.val
    ELSE AcceptedItems(n - 1) \o <<trace[n].body.val>>

\* C8: in fetch_json, when the first request is answered 401 and the retry
\* is accepted, the trace is exactly get_token, GET, invalidate, get_token,
\* GET: two requests with the caller's parameters, one invalidate between
\* them, the second request carrying the token of the get_token made after
\* the invalidate; the parsed body of the second answer is returned.
C8_FetchJsonRetriesOnce ==
    (/\ fn = "fetch_json"
     /\ Len(Gets) >= 2
     /\ Gets[1].status = 401
     /\ Accepted(Gets[Len(Gets)]))
    => /\ Len(trace) = 5
       /\ trace[1].e = "get_token"
       /\ trace[2].e = "GET" /\ trace[2].tok = trace[1].tok
       /\ trace[3].e = "invalidate"
       /\ trace[4].e = "get_token" /\ trace[4].tok /= None
       /\ trace[5].e = "GET" /\ trace[5].tok = trace[4].tok
       /\ trace[2].params = initial_params
       /\ trace[5].params = initial_params
       /\ pc = "returned"
       /\ result.raised = ""
       /\ result.body = trace[5].body

\* fetch_json has returned the body of an accepted retry, sent with a token
\* exchanged after the invalidate
C8_Witness ==
    /\ fn = "fetch_json"
    /\ pc = "returned"
    /\ Len(Gets) = 2
    /\ Gets[1].status = 401
    /\ Gets[2].status = 200
    /\ Gets[2].tok /= Gets[1].tok
    /\ result.body = ListBody(<<"e1", "e2">>)

\* C9: in fetch_json and in fetch_paginated_v1, once the retry of a page
\* request is answered 401 as well, the fetch has raised; that page has had
\* exactly two requests and one invalidate, and its second request is the
\* last event of the fetch: no third request, no request of a later page.
C9_SecondRejectionIsFatal ==
    \A pg \in 1..page :
        (Len(PageGets(pg)) >= 2 /\ PageGets(pg)[2].status = 401)
        => /\ pc = "raised"
           /\ result.raised /= ""
           /\ Len(PageGets(pg)) = 2
           /\ Len(PageInvalidates(pg)) = 1
           /\ pg = page
           /\ trace[Len(trace)] = PageGets(pg)[2]

\* fetch_paginated_v1 has raised on a continuation page whose request and
\* retry were both answered 401
C9_Witness ==
    /\ fn = "fetch_paginated_v1"
    /\ pc = "raised"
    /\ page >= 2
    /\ Len(PageGets(page)) = 2
    /\ PageGets(page)[1].status = 401
    /\ PageGets(page)[2].status = 401

\* the cursor the request of page pg must carry: that of the accepted answer
\* of page pg - 1
CursorBefore(pg) == PageGets(pg - 1)[Len(PageGets(pg - 1))].cursor

\* the parameters the requests of page pg must carry
ParamsOfPage(pg) ==
    IF pg = 1 THEN initial_params
    ELSE [k \in DOMAIN initial_params \cup {"nextPageKey"} |->
            IF k = "nextPageKey" THEN CursorBefore(pg) ELSE initial_params[k]]

\* the position in the trace of the first request of page pg
FirstGet(pg) ==
    CHOOSE i \in 1..Len(trace) :
        /\ trace[i].e = "GET" /\ trace[i].page = pg
        /\ \A j \in 1..(i - 1) : ~(trace[j].e = "GET" /\ trace[j].page = pg)

\* what the fetch did for page pg after the event at position i
EventsAfter(i, pg) ==
    SelectSeq(SubSeq(trace, i + 1, Len(trace)), LAMBDA ev : ev.page = pg)

\* C10: in fetch_paginated_v1, a first answer 401 on any page, a
\* continuation page included, is followed by exactly one invalidate and one
\* get_token and, unless that get_token raised, by exactly one retry, which
\* carries the new token and the very parameters of the rejected request:
\* the caller's, plus on a continuation page the cursor of the page before.
\* The accumulator holds the records of the accepted answers, in order, and
\* nothing of a rejected answer; the parameters of the next request never
\* carry a rejected answer's cursor.
C10_V1RetryKeepsPageAndRecords ==
    fn = "fetch_paginated_v1" =>
        /\ \A pg \in 1..page :
             (PageGets(pg) /= <<>> /\ PageGets(pg)[1].status = 401)
             => \E i \in {FirstGet(pg)} : \E after \in {EventsAfter(i, pg)} :
                  /\ Len(after) \in {2, 3}
                  /\ after[1].e = "invalidate"
                  /\ after[2].e = "get_token"
                  /\ Len(after) = 2 <=> after[2].tok = None
                  /\ Len(after) = 3 =>
                       /\ after[3].e = "GET"
                       /\ after[3].tok = after[2].tok
                       /\ after[3].params = trace[i].params
                       /\ after[3].params = ParamsOfPage(pg)
        /\ \A pg \in 1..page : \A k \in 1..Len(PageGets(pg)) :
             PageGets(pg)[k].params = ParamsOfPage(pg)
        /\ aggregated_items = AcceptedItems(Len(trace))
        /\ \A k \in 1..Len(aggregated_items) : aggregated_items[k] /= "denied"
        /\ pc = "v1_loop" => /\ params = ParamsOfPage(page)
                             /\ "nextPageKey" \in DOMAIN params
                                  => params.nextPageKey /= "k401"

\* a continuation page was rejected once and accepted on the retry, with the
\* same cursor; the records of both pages are returned
C10_Witness ==
    /\ fn = "fetch_paginated_v1"
    /\ pc = "returned"
    /\ page = 2
    /\ Len(PageGets(1)) = 1
    /\ Len(PageGets(2)) = 2
    /\ PageGets(2)[1].status = 401
    /\ PageGets(2)[2].status = 200
    /\ PageGets(2)[2].params = PageGets(2)[1].params
    /\ PageGets(2)[2].params.nextPageKey = "k2"
    /\ PageGets(2)[2].tok /= PageGets(2)[1].tok
    /\ result.items = <<"e1", "e2", "o1">>

----------------------------------------------------------------------------
(* StaticTokenAuthenticator: the claim, checked under SpecStatic *)

\* C7: whatever get_token and invalidate calls were made, every get_token
\* returned the token the authenticator was constructed with, and the
\* authenticator still holds it: invalidate changes nothing.
C7_StaticTokenFixed ==
    /\ api_token = ctor_token
    /\ \A i \in 1..Len(staticLog) :
           staticLog[i].op = "get_token" => staticLog[i].ret = ctor_token

\* get_token has returned after two invalidate calls
C7_Witness ==
    /\ Len(staticLog) >= 4
    /\ staticLog[1].op = "get_token"
    /\ staticLog[2].op = "invalidate"
    /\ staticLog[3].op = "invalidate"
    /\ staticLog[4].op = "get_token"
    /\ staticLog[4].ret = ctor_token
    /\ ctor_token /= ""

----------------------------------------------------------------------------
(* The static-token client: the claim, checked under SpecStaticFetch *)

\* C11, as claimed: in the static-token client, a page request answered 401
\* has led to exactly one invalidate call and exactly one retry of the same
\* page request (two requests of that page, with the same parameters) by the
\* time the fetch raises.
C11_StaticRetriesOnce ==
    (fn \in {"static_fetch_json", "static_fetch_paginated_v1"} /\ pc = "raised")
    => \A pg \in 1..page :
         (PageGets(pg) /= <<>> /\ PageGets(pg)[1].status = 401)
         => /\ Len(PageInvalidates(pg)) = 1
            /\ Len(PageGets(pg)) = 2
            /\ PageGets(pg)[2].params = PageGets(pg)[1].params

----------------------------------------------------------------------------
(* Every fetcher of both clients: the claims checked under SpecClients *)

\* a request that failed: an HTTP error status, a timeout, or a 2xx answer
\* whose body does not parse
Failed(ev) ==
    ev.e = "GET" /\ (ev.status >= 400 \/ ev.status = 0 \/ ev.body.kind = "invalid")

\* the request at position i was the first of its page and was answered 401
IsFirst401(i) == trace[i].status = 401 /\ i = FirstGet(trace[i].page)

\* C12: in every fetcher, a page request that failed for another reason than
\* a first 401 (an HTTP error status, a body that does not parse, a timeout,
\* or the 401 of a retry) is the last event of the fetch, which has raised:
\* no request follows it and no invalidate does.
C12_OtherFailuresAreFatal ==
    \A i \in 1..Len(trace) :
        (Failed(trace[i]) /\ ~IsFirst401(i))
        => /\ i = Len(trace)
           /\ pc = "raised"
           /\ result.raised /= ""

\* fetch_paginated_v1 has raised on its second page, answered 500, without
\* any invalidate; the first page had been accepted
C12_Witness ==
    /\ fn = "fetch_paginated_v1"
    /\ pc = "raised"
    /\ page = 2
    /\ Accepted(PageGets(1)[1])
    /\ trace[Len(trace)].e = "GET"
    /\ trace[Len(trace)].status = 500
    /\ PageInvalidates(1) = <<>>
    /\ PageInvalidates(2) = <<>>
    /\ aggregated_items /= <<>>

----------------------------------------------------------------------------
(* fetch_paginated_entities: the claims, checked under SpecFetch *)

\* the document fetch_json returned for page pg
PageDoc(pg) == PageGets(pg)[Len(PageGets(pg))].body.val

\* C13: the document fetch_paginated_entities returns has the fields of the
\* first page other than entities and nextPageKey, with the first page's
\* values whatever later pages hold under the same names, plus entities,
\* the aggregate; it has no nextPageKey and no field of a later page only.
C13_MetaFromFirstPageOnly ==
    (fn = "fetch_paginated_entities" /\ pc = "returned")
    => /\ result.body.kind = "doc"
       /\ DOMAIN result.body.val =
            (DOMAIN PageDoc(1) \ {"entities", "nextPageKey"}) \cup {"entities"}
       /\ \A k \in DOMAIN PageDoc(1) \ {"entities", "nextPageKey"} :
            result.body.val[k] = PageDoc(1)[k]
       /\ result.body.val["entities"] = aggregated_items
       /\ "nextPageKey" \notin DOMAIN result.body.val

\* a fetch of two pages has returned: both pages hold a totalCount, the
\* second another one and no pageSize; the result has the first page's
C13_Witness ==
    /\ fn = "fetch_paginated_entities"
    /\ pc = "returned"
    /\ page = 2
    /\ PageDoc(1) = [entities |-> <<"E1">>, nextPageKey |-> "abc", totalCount |-> "2",
                     pageSize |-> "1"]
    /\ PageDoc(2) = [entities |-> <<"E4">>, nextPageKey |-> "", totalCount |-> "7"]
    /\ result.body.val = [totalCount |-> "2", pageSize |-> "1", entities |-> <<"E1", "E4">>]

\* the parameters the requests of page pg of fetch_paginated_entities must
\* carry: the caller's, or nothing but the cursor of the page before
EntityParamsOfPage(pg) ==
    IF pg = 1 THEN initial_params ELSE [nextPageKey |-> PageDoc(pg - 1)["nextPageKey"]]

\* C14: in fetch_paginated_entities, every request of the first page, a
\* retry included, carries exactly the caller's parameters, and every
\* request of a later page carries the single parameter nextPageKey, set to
\* the cursor of the page before; so do the parameters of the next request.
C14_ContinuationCarriesOnlyCursor ==
    fn = "fetch_paginated_entities" =>
        /\ \A pg \in 1..page : \A k \in 1..Len(PageGets(pg)) :
             PageGets(pg)[k].params = EntityParamsOfPage(pg)
        /\ pc = "v2_loop" => params = EntityParamsOfPage(page)

\* the second page has been requested with nothing but the first page's
\* cursor, the first page with the caller's filter parameters
C14_Witness ==
    /\ fn = "fetch_paginated_entities"
    /\ page = 2
    /\ PageGets(2) /= <<>>
    /\ "entitySelector" \in DOMAIN PageGets(1)[1].params
    /\ PageGets(1)[1].params = initial_params
    /\ PageDoc(1)["nextPageKey"] = "abc"
    /\ PageGets(2)[1].params = [nextPageKey |-> "abc"]

----------------------------------------------------------------------------
(* fetch_paginated_v1 of both clients: the claim, checked under SpecClients *)

\* every request of a continuation page carries the caller's parameters plus
\* the cursor of the page before, and so do the parameters of the next request
V1ParamsRestart ==
    fn \in {"fetch_paginated_v1", "static_fetch_paginated_v1"} =>
        /\ \A pg \in 2..page : \A k \in 1..Len(PageGets(pg)) :
             /\ PageGets(pg)[k].params = ParamsOfPage(pg)
             /\ DOMAIN PageGets(pg)[k].params = DOMAIN initial_params \cup {"nextPageKey"}
        /\ (pc \in {"v1_loop", "static_v1_loop"} /\ page >= 2)
             => params = ParamsOfPage(page)

\* C15: in fetch_paginated_v1 of either client, every continuation request
\* carries exactly the caller's original parameters plus nextPageKey, set to
\* the cursor of the immediately preceding page, whatever the requests
\* before it carried; and no step of the fetch changes the caller's mapping.
C15_V1ContinuationRestartsFromOriginal ==
    [][/\ V1ParamsRestart'
       /\ (fn' \in {"fetch_paginated_v1", "static_fetch_paginated_v1"} /\ fn' = fn)
            => initial_params' = initial_params]_vars

\* two pages were accepted, with the cursors k1 and k2: the second request
\* carried the caller's parameters and k1, the third is to carry them and k2
C15_Witness ==
    /\ fn = "fetch_paginated_v1"
    /\ pc = "v1_loop"
    /\ page = 3
    /\ initial_params = [relativeTime |-> "hour", pageSize |-> "50"]
    /\ PageGets(2)[1].params = [relativeTime |-> "hour", pageSize |-> "50", nextPageKey |-> "k1"]
    /\ params = [relativeTime |-> "hour", pageSize |-> "50", nextPageKey |-> "k2"]

----------------------------------------------------------------------------
(* The paginated fetches of both clients: the claims checked under SpecClients *)

Paginated == {"fetch_paginated_v1", "static_fetch_paginated_v1", "fetch_paginated_entities"}

\* the records of one accepted page: the elements of a v1 array, a v1 body
\* that is no array as one record, the entities of a v2 document
PageRecords(body) ==
    IF body.kind = "list" THEN body.val
    ELSE IF body.kind = "doc"
    THEN (IF "entities" \in DOMAIN body.val THEN body.val["entities"] ELSE <<>>)
    ELSE <<body.val>>

\* the records of the accepted pages among the first n events, in the order
\* of the requests, and their number, page by page
RECURSIVE RecordsUpTo(_)
RecordsUpTo(n) ==
    IF n = 0 THEN <<>>
    ELSE IF Accepted(trace[n]) THEN RecordsUpTo(n - 1) \o PageRecords(trace[n].body)
    ELSE RecordsUpTo(n - 1)

RECURSIVE RecordCountUpTo(_)
RecordCountUpTo(n) ==
    IF n = 0 THEN 0
    ELSE IF Accepted(trace[n]) THEN RecordCountUpTo(n - 1) + Len(PageRecords(trace[n].body))
    ELSE RecordCountUpTo(n - 1)

\* the cursor the accepted answer of page pg carried: the Next-Page-Key
\* header of a v1 page, the nextPageKey field of a v2 document
CursorOf(pg) ==
    IF fn = "fetch_paginated_entities" THEN PageDoc(pg)["nextPageKey"]
    ELSE PageGets(pg)[Len(PageGets(pg))].cursor

\* the record list a paginated fetch returned
Returned == IF fn = "fetch_paginated_entities" THEN result.body.val["entities"] ELSE result.items

\* C16: the record list a paginated fetch of either protocol returns is the
\* concatenation of the accepted pages' records in the order the pages were
\* requested, which is the order the cursors chained them: its length is the
\* sum of the pages' record counts, a v1 body that is no array counting as
\* one record.
C16_AggregateIsConcatenation ==
    (fn \in Paginated /\ pc = "returned")
    => /\ Returned = RecordsUpTo(Len(trace))
       /\ Len(Returned) = RecordCountUpTo(Len(trace))
       /\ \A pg \in 2..page : PageGets(pg)[1].params["nextPageKey"] = CursorOf(pg - 1)

\* fetch_paginated_v1 has returned the two records of an array page followed
\* by the one record of a page that is no array
C16_Witness ==
    /\ fn = "fetch_paginated_v1"
    /\ pc = "returned"
    /\ page = 2
    /\ Len(Gets) = 2
    /\ Gets[1].body = ListBody(<<"e1", "e2">>)
    /\ Gets[2].body = ObjectBody("o1")
    /\ result.items = <<"e1", "e2", "o1">>

\* the answer of the request ev is a page the fetch takes: for
\* fetch_paginated_entities it must be a JSON object
AcceptedPage(ev) == Accepted(ev) /\ (fn = "fetch_paginated_entities" => ev.body.kind = "doc")

\* the cursor the answer of the request ev carries, None when it has none
EventCursor(ev) ==
    IF fn = "fetch_paginated_entities"
    THEN (IF "nextPageKey" \in DOMAIN ev.body.val THEN ev.body.val["nextPageKey"] ELSE None)
    ELSE ev.cursor

\* C17: in a paginated fetch of either protocol, an accepted page whose
\* cursor is absent or empty is the last event of the fetch, which has
\* returned; a fetch returns on no other occasion; and after an accepted
\* page with a non-empty cursor the fetch is in its loop, about to request
\* the next page, however many pages it has requested.
C17_StopsOnlyWithoutCursor ==
    fn \in Paginated =>
        /\ \A i \in 1..Len(trace) :
             (AcceptedPage(trace[i]) /\ EventCursor(trace[i]) \in {None, ""})
             => (i = Len(trace) /\ pc = "returned")
        /\ pc = "returned"
             => /\ AcceptedPage(trace[Len(trace)])
                /\ EventCursor(trace[Len(trace)]) \in {None, ""}
        /\ (trace /= <<>> /\ AcceptedPage(trace[Len(trace)])
              /\ EventCursor(trace[Len(trace)]) \notin {None, ""})
             => /\ pc \in {"v1_loop", "static_v1_loop", "v2_loop"}
                /\ page = trace[Len(trace)].page + 1
                /\ params["nextPageKey"] = EventCursor(trace[Len(trace)])

\* the static-token fetch_paginated_v1 has returned after a second page with
\* an empty cursor, the first page having carried the cursor k1
C17_Witness ==
    /\ fn = "static_fetch_paginated_v1"
    /\ pc = "returned"
    /\ page = 2
    /\ Len(Gets) = 2
    /\ Gets[1].cursor = "k1"
    /\ Gets[2].cursor = ""
    /\ Gets[2].status = 200

----------------------------------------------------------------------------
(* fetch_paginated_entities with a JwtAuthenticator: the claim, checked      *)
(* under SpecFetch                                                          *)

\* the events a step adds to the trace
NewEvents == SubSeq(trace', Len(trace) + 1, Len(trace'))

\* C18: in every pass of the loop of fetch_paginated_entities, each request,
\* the retry included, comes right after a get_token call of its own and
\* carries the token that call returned.  The first request's token is the
\* cached one only while the clock is before its expiry, and else one
\* exchanged for this request; the retry's token is one exchanged after the
\* invalidate, cached with an expiry still ahead.
C18_TokenConsultedPerRequest ==
    [][EntitiesPage =>
         /\ \A i \in 1..Len(NewEvents) :
              NewEvents[i].e = "GET"
              => /\ i > 1
                 /\ NewEvents[i - 1].e = "get_token"
                 /\ NewEvents[i - 1].tok = NewEvents[i].tok
                 /\ NewEvents[i].tok \notin {None, ""}
         /\ Len(NewEvents) >= 2
              => \/ /\ NewEvents[2].tok = token
                    /\ now < expiry
                    /\ posts' = posts \/ NewEvents[3].e = "invalidate"
                 \/ /\ NewEvents[2].tok = TokenOf(posts + 1)
                    /\ token = None \/ now >= expiry
         /\ Len(NewEvents) >= 5
              => /\ NewEvents[5].tok = token'
                 /\ NewEvents[5].tok /= NewEvents[2].tok
                 /\ now' < expiry']_vars

\* the second page was requested with another token than the first without
\* any 401: the first token's expiry had passed between the two requests
C18_Witness ==
    /\ fn = "fetch_paginated_entities"
    /\ page >= 2
    /\ Len(Gets) = 2
    /\ Gets[1].status = 200
    /\ Gets[2].status = 200
    /\ Gets[2].page = 2
    /\ Gets[1].tok /= Gets[2].tok
    /\ \A i \in 1..Len(trace) : trace[i].e /= "invalidate"
    /\ token = Gets[2].tok

----------------------------------------------------------------------------
(* clean_unsupported_metadata: the claims, checked under SpecNormalize *)

\* C19: the scalar coercion of clean_unsupported_metadata (lines 37-44)
\* replaces every top-level field that is a float, a boolean or an integer
\* by its string form and leaves every top-level field of another type
\* (string, null, list, record) as it is, numbers and booleans nested in
\* lists or records included.  The component returned holds the coerced
\* fields unchanged, except lastSeenTimestamp, which the last step removes,
\* and a properties record, which the special cases rewrite.
C19_TopLevelScalarsCoerced ==
    npc = "returned" =>
        /\ DOMAIN coerced = DOMAIN entity
        /\ \A k \in DOMAIN entity :
             IF entity[k].t \in {"float", "bool", "int"}
             THEN /\ coerced[k].t = "str"
                  /\ coerced[k].v = PyStr(entity[k])
             ELSE coerced[k] = entity[k]
        /\ DOMAIN cleaned = DOMAIN entity \ {"lastSeenTimestamp"}
        /\ \A k \in DOMAIN cleaned :
             (k /= "properties" \/ entity[k].t /= "dict") => cleaned[k] = coerced[k]

\* an entity with an integer, a float and two booleans at the top level and
\* numbers inside a list and a record has been cleaned
C19_Witness ==
    /\ npc = "returned"
    /\ "extra" \in DOMAIN entity
    /\ entity["count"] = JsonInt(5)
    /\ cleaned["count"] = JsonStr("5")
    /\ cleaned["ratio"] = JsonStr("1.5")
    /\ cleaned["flag"] = JsonStr("True")
    /\ entity["extra"] = JsonBool(FALSE)
    /\ cleaned["extra"] = JsonStr("False")
    /\ cleaned["firstSeen"] = JsonNull
    /\ cleaned["ports"] = JsonList(<<JsonInt(80), JsonBool(FALSE), JsonFloat(0, 5)>>)
    /\ cleaned["monitoringState"] = JsonDict([restarts |-> JsonInt(2), ok |-> JsonBool(TRUE)])

\* the customPgMetadata list of the entity, when it is a list of records
RecordList ==
    IF /\ "properties" \in DOMAIN entity
       /\ entity["properties"].t = "dict"
       /\ "customPgMetadata" \in DOMAIN entity["properties"].v
       /\ entity["properties"].v["customPgMetadata"].t = "list"
       /\ \A j \in DOMAIN entity["properties"].v["customPgMetadata"].v :
            entity["properties"].v["customPgMetadata"].v[j].t = "dict"
    THEN entity["properties"].v["customPgMetadata"].v
    ELSE <<>>

\* the position of the last entry of RecordList that resolves to key
LastWith(key) ==
    CHOOSE j \in 1..Len(RecordList) :
        /\ ResolveKey(RecordList[j], j - 1) = key
        /\ \A j2 \in (j + 1)..Len(RecordList) : ResolveKey(RecordList[j2], j2 - 1) /= key

\* C20: a customPgMetadata list of key/value records is folded into one
\* record whose fields are the resolved keys; under each key it holds the
\* value of the last entry that resolves to it, as that entry gave it: one
\* value, not a collection.
C20_CustomPgMetadataLastWriteWins ==
    (npc = "returned" /\ RecordList /= <<>>)
    => \E folded \in {cleaned["properties"].v["customPgMetadata"]} :
         /\ folded.t = "dict"
         /\ DOMAIN folded.v = {ResolveKey(RecordList[j], j - 1) : j \in 1..Len(RecordList)}
         /\ \A key \in DOMAIN folded.v :
              folded.v[key] = ItemValue(RecordList[LastWith(key)], LastWith(key) - 1)

\* [{"key": "a", "value": 1}, {"key": "a", "value": 2}] has become {"a": 2}
C20_Witness ==
    /\ npc = "returned"
    /\ RecordList = <<JsonDict([key |-> JsonStr("a"), value |-> JsonInt(1)]),
                      JsonDict([key |-> JsonStr("a"), value |-> JsonInt(2)])>>
    /\ cleaned["properties"].v["customPgMetadata"] = JsonDict([a |-> JsonInt(2)])

----------------------------------------------------------------------------
(* process_entity_to_component: the claims, checked under SpecComponent *)

\* the properties.metadata list of a process-group entity that has been
\* processed without error
MetadataList ==
    IF /\ npc = "processed"
       /\ component_type = "process-group"
       /\ processed.raised = ""
       /\ "properties" \in DOMAIN entity
       /\ entity["properties"].t = "dict"
       /\ "metadata" \in DOMAIN entity["properties"].v
       /\ entity["properties"].v["metadata"].t = "list"
    THEN entity["properties"].v["metadata"].v
    ELSE <<>>

\* the entry is a record with a key
HasKey(entry) == entry.t = "dict" /\ PyTruthy(Get(entry, "key"))

\* the entries of MetadataList whose key is renamed to target and whose
\* value is not null, in list order
EntriesFor(target) ==
    SelectSeq(MetadataList,
              LAMBDA entry : /\ HasKey(entry)
                             /\ Get(entry, "value") /= JsonNull
                             /\ IF Get(entry, "key").v \in DOMAIN KeyMapping
                                THEN KeyMapping[Get(entry, "key").v] = target
                                ELSE Get(entry, "key").v = target)

\* C21: the process-group reshape folds the properties.metadata entry list
\* into a top-level metadata record of arrays: its fields are the keys of
\* the entries renamed through the key table (a key outside the table keeps
\* its name), and the array under a target key holds the values of all the
\* entries with that target key, in list order, none overwritten (an entry
\* whose value is null adds its key and no value).
C21_MetadataFoldedIntoArrays ==
    (\E j \in DOMAIN MetadataList : HasKey(MetadataList[j]))
    => \E folded \in {processed.val.component["metadata"]} :
         /\ folded.t = "dict"
         /\ DOMAIN folded.v =
              {(IF Get(MetadataList[j], "key").v \in DOMAIN KeyMapping
                THEN KeyMapping[Get(MetadataList[j], "key").v]
                ELSE Get(MetadataList[j], "key").v) :
                 j \in {i \in DOMAIN MetadataList : HasKey(MetadataList[i])}}
         /\ \A target \in DOMAIN folded.v :
              /\ folded.v[target].t = "list"
              /\ Len(folded.v[target].v) = Len(EntriesFor(target))
              /\ \A j \in DOMAIN folded.v[target].v :
                   folded.v[target].v[j] = Get(EntriesFor(target)[j], "value")

\* [{"key": "EXE_NAME", "value": "x"}, {"key": "EXE_NAME", "value": "y"}]
\* has become {"executables": ["x", "y"]}
C21_Witness ==
    /\ MetadataList = <<JsonDict([key |-> JsonStr("EXE_NAME"), value |-> JsonStr("x")]),
                        JsonDict([key |-> JsonStr("EXE_NAME"), value |-> JsonStr("y")])>>
    /\ processed.val.component["metadata"]
         = JsonDict([executables |-> JsonList(<<JsonStr("x"), JsonStr("y")>>)])

----------------------------------------------------------------------------
(* process_topology: the claims, checked under SpecTopology *)

\* the entity id process_topology uses for an entry that is a record: the
\* top-level field, a number or boolean in its string form, "" when absent
EntityIdOf(e) ==
    IF "entityId" \notin DOMAIN e.v THEN JsonStr("")
    ELSE IF e.v["entityId"].t \in {"int", "float", "bool"} THEN JsonStr(PyStr(e.v["entityId"]))
    ELSE e.v["entityId"]

\* a relationship field of a raw entity, the empty record when absent
RelationsOf(e, field) == IF field \in DOMAIN e.v THEN e.v[field] ELSE EmptyDict

\* the entries that gave a component and whose relationship fields are
\* both records: the entities processed without error
ProcessedEntries ==
    {i \in DOMAIN entities :
        /\ \E j \in DOMAIN comp_of : comp_of[j] = i
        /\ i < position
        /\ RelationsOf(entities[i], "fromRelationships").t = "dict"
        /\ RelationsOf(entities[i], "toRelationships").t = "dict"}

\* the descriptors listed in a relationship field of entry i: relation
\* type and place in the list, for the types whose value is a list and the
\* descriptors that are a record with an id or a bare id
Listed(i, field) ==
    {<<type, k>> \in UNION {{<<type, k>> :
                     k \in (IF RelationsOf(entities[i], field).v[type].t = "list"
                            THEN DOMAIN RelationsOf(entities[i], field).v[type].v ELSE {})} :
                 type \in DOMAIN RelationsOf(entities[i], field).v} :
        PyTruthy(IF RelationsOf(entities[i], field).v[type].v[k].t = "dict"
                 THEN Get(RelationsOf(entities[i], field).v[type].v[k], "id")
                 ELSE RelationsOf(entities[i], field).v[type].v[k])}

\* the id a listed descriptor names
ListedId(i, field, type, k) ==
    IF RelationsOf(entities[i], field).v[type].v[k].t = "dict"
    THEN RelationsOf(entities[i], field).v[type].v[k].v["id"]
    ELSE RelationsOf(entities[i], field).v[type].v[k]

\* the places in relationships of the edges that come from entry i
EdgesOf(i) == {j \in DOMAIN relationships : rel_of[j] = i}

\* C22: for an entity E processed without error, every target T listed
\* under relation type R in fromRelationships yields the edge {source: E,
\* target: T, type: R}, every source S listed under R in toRelationships
\* yields {source: S, target: E, type: R}, and no other edge comes from E:
\* a relation type whose value is no list yields none, and there are as
\* many edges as listed descriptors.  Whether an id is among the components
\* plays no part.
C22_EdgesAreTheListedRelations ==
    \A i \in ProcessedEntries :
        /\ \A d \in Listed(i, "fromRelationships") :
             \E j \in EdgesOf(i) :
                relationships[j] = [source |-> EntityIdOf(entities[i]),
                                    target |-> ListedId(i, "fromRelationships", d[1], d[2]),
                                    type |-> d[1]]
        /\ \A d \in Listed(i, "toRelationships") :
             \E j \in EdgesOf(i) :
                relationships[j] = [source |-> ListedId(i, "toRelationships", d[1], d[2]),
                                    target |-> EntityIdOf(entities[i]),
                                    type |-> d[1]]
        /\ \A j \in EdgesOf(i) :
             \/ \E d \in Listed(i, "fromRelationships") :
                  relationships[j] = [source |-> EntityIdOf(entities[i]),
                                      target |-> ListedId(i, "fromRelationships", d[1], d[2]),
                                      type |-> d[1]]
             \/ \E d \in Listed(i, "toRelationships") :
                  relationships[j] = [source |-> ListedId(i, "toRelationships", d[1], d[2]),
                                      target |-> EntityIdOf(entities[i]),
                                      type |-> d[1]]
        /\ Cardinality(EdgesOf(i)) = Cardinality(Listed(i, "fromRelationships"))
                                     + Cardinality(Listed(i, "toRelationships"))

\* an entity with a record and a bare id as targets, a descriptor without
\* id, a relation type whose value is no list and a bare id as source has
\* been processed alone; none of the other ids is among the components
C22_Witness ==
    /\ tpc = "returned"
    /\ Len(entities) = 1
    /\ entities[1].t = "dict"
    /\ EntityIdOf(entities[1]) = JsonStr("E3")
    /\ topology.relationships =
         <<[source |-> JsonStr("E3"), target |-> JsonStr("H2"), type |-> "runsOn"],
           [source |-> JsonStr("E3"), target |-> JsonStr("H1"), type |-> "runsOn"],
           [source |-> JsonStr("E2"), target |-> JsonStr("E3"), type |-> "calls"]>>
    /\ Len(topology.components) = 1

\* C23: whatever the shape of the entries of the input collection, a
\* processing error on one entry never aborts the batch: process_topology
\* never ends with an error, so every later entry is still processed and a
\* topology is returned.
C23_ErrorNeverAbortsBatch == tpc /= "raised"

\* the entries whose processing raised an error the handler caught
WarnedEntries == {warnings[j].at : j \in DOMAIN warnings}

\* C24: an entity whose processing raises an error at any step is skipped
\* entirely: no component and no relationship of the topology comes from
\* it, and component_count does not count it.
C24_FailedEntityLeavesNothing ==
    /\ \A i \in WarnedEntries :
         /\ \A j \in DOMAIN comp_of : comp_of[j] /= i
         /\ \A j \in DOMAIN rel_of : rel_of[j] /= i
    /\ tpc = "returned" =>
         topology.metadata.component_count = Len(entities) - Cardinality(WarnedEntries)

\* v is strictly increasing, or only never decreasing
Increasing(s, strictly) ==
    \A j1, j2 \in DOMAIN s : j1 < j2 => IF strictly THEN s[j1] < s[j2] ELSE s[j1] <= s[j2]

\* C25: in every returned topology the components and the relationships
\* are in the input order of the entities they come from (each component
\* is the one of its entity, each relationship has its entity at one end),
\* component_count is the length of components and relationship_count the
\* length of relationships.
C25_InputOrderAndCounts ==
    tpc = "returned" =>
        /\ topology.components = components
        /\ topology.relationships = relationships
        /\ Len(comp_of) = Len(components)
        /\ Len(rel_of) = Len(relationships)
        /\ Increasing(comp_of, TRUE)
        /\ Increasing(rel_of, FALSE)
        /\ \A j \in DOMAIN components :
             components[j]["identifiers"].v[1].v
               = "urn:dynatrace:/" \o PyStr(EntityIdOf(entities[comp_of[j]]))
        /\ \A j \in DOMAIN relationships :
             EntityIdOf(entities[rel_of[j]]) \in {relationships[j].source, relationships[j].target}
        /\ topology.metadata.component_count = Len(topology.components)
        /\ topology.metadata.relationship_count = Len(topology.relationships)

\* two entities with relationships have been processed: two components and
\* two relationships, those of the first entity first
C25_Witness ==
    /\ tpc = "returned"
    /\ comp_of = <<1, 2>>
    /\ rel_of = <<1, 2>>
    /\ topology.metadata.component_count = 2
    /\ topology.metadata.relationship_count = 2
    /\ topology.components[1]["entityId"] = JsonStr("E1")
    /\ topology.components[2]["entityId"] = JsonStr("E2")
    /\ topology.relationships =
         <<[source |-> JsonStr("E1"), target |-> JsonStr("H1"), type |-> "runsOn"],
           [source |-> JsonStr("PG1"), target |-> JsonStr("E2"), type |-> "isInstanceOf"]>>

\* what the lower-cased file name decides, as the rule is stated: contains
\* "process" and not "group" gives process, else contains "process-group"
\* gives process-group, else entity
KindByName(name) ==
    IF /\ \E j \in 1..Len(name) - 6 :
            SubSeq(Lower(name), j, j + 6) = <<"p", "r", "o", "c", "e", "s", "s">>
       /\ ~\E j \in 1..Len(name) - 4 :
            SubSeq(Lower(name), j, j + 4) = <<"g", "r", "o", "u", "p">>
    THEN "process"
    ELSE IF \E j \in 1..Len(name) - 12 :
              SubSeq(Lower(name), j, j + 12)
                = <<"p", "r", "o", "c", "e", "s", "s", "-", "g", "r", "o", "u", "p">>
    THEN "process-group"
    ELSE "entity"

\* C26: an explicitly given component type is always used; otherwise the
\* lower-cased file name decides: it contains "process" and not "group"
\* gives process, else it contains "process-group" gives process-group,
\* else entity.  Every component of the topology, and its metadata, carry
\* that one resolved type.
C26_KindResolution ==
    tpc \in {"loop", "returned", "raised"} =>
        /\ given_type /= None => component_type = given_type
        /\ given_type = None => component_type = KindByName(input_file)
        /\ \A j \in DOMAIN components :
             components[j]["component_type"] = JsonStr(component_type)
        /\ tpc = "returned" => topology.metadata.component_type = component_type

\* Process-Groups.json read without a component type: two components of
\* type process-group
C26_Witness ==
    /\ tpc = "returned"
    /\ given_type = None
    /\ input_file = <<"P", "r", "o", "c", "e", "s", "s", "-", "G", "r", "o", "u", "p", "s",
                      ".", "j", "s", "o", "n">>
    /\ component_type = "process-group"
    /\ Len(topology.components) = 2
    /\ \A j \in 1..2 : topology.components[j]["component_type"] = JsonStr("process-group")

----------------------------------------------------------------------------
(* process_entity_to_component: component assembly, identifiers and tags *)

\* C27: every emitted component has identifiers, tags and component_type
\* as the normalizer sets them, whatever fields of those names the raw
\* entity has: identifiers is the one canonical identifier, tags a list of
\* labels and no tag record, component_type the type asked for.  It never
\* has a fromRelationships or a toRelationships field, for every component
\* type, process-group included.
C27_ComponentAssembly ==
    (npc = "processed" /\ processed.raised = "")
    => \E component \in {processed.val.component} :
         /\ {"identifiers", "tags", "component_type"} \subseteq DOMAIN component
         /\ component["identifiers"].t = "list"
         /\ Len(component["identifiers"].v) = 1
         /\ component["identifiers"].v[1]
              = JsonStr("urn:dynatrace:/" \o PyStr(processed.val.entityId))
         /\ component["component_type"] = JsonStr(component_type)
         /\ component["tags"].t = "list"
         /\ \A j \in DOMAIN component["tags"].v : component["tags"].v[j].t = "str"
         /\ ("tags" \in DOMAIN entity /\ entity["tags"].t = "list" /\ entity["tags"].v /= <<>>)
              => component["tags"] /= entity["tags"]
         /\ "fromRelationships" \notin DOMAIN component
         /\ "toRelationships" \notin DOMAIN component

\* a process-group entity with raw identifiers, component_type, tags and
\* both relationship fields has been processed
C27_Witness ==
    /\ npc = "processed"
    /\ processed.raised = ""
    /\ component_type = "process-group"
    /\ {"identifiers", "component_type"} \subseteq DOMAIN entity
    /\ entity["identifiers"] = JsonList(<<JsonStr("raw")>>)
    /\ entity["component_type"] = JsonStr("raw")
    /\ {"tags", "fromRelationships", "toRelationships"} \subseteq DOMAIN entity
    /\ processed.val.component["identifiers"] = JsonList(<<JsonStr("urn:dynatrace:/E1")>>)
    /\ processed.val.component["component_type"] = JsonStr("process-group")
    /\ processed.val.component["tags"].v[1] = JsonStr("env:prod")
    /\ processed.val.fromRelationships = entity["fromRelationships"]

\* the first identifier of component j
FirstIdentifier(j) == components[j]["identifiers"].v[1]

\* the raw entity component j comes from
RawEntityOf(j) == entities[comp_of[j]]

\* C28 as claimed: identifiers[0] is the prefix followed by the entity id,
\* and two raw entities with different entity ids never get the same
\* identifiers[0].
C28_DifferentIdsDifferentIdentifiers ==
    \A j1, j2 \in DOMAIN components :
        (/\ "entityId" \in DOMAIN RawEntityOf(j1).v
         /\ "entityId" \in DOMAIN RawEntityOf(j2).v
         /\ RawEntityOf(j1).v["entityId"] /= RawEntityOf(j2).v["entityId"])
        => FirstIdentifier(j1) /= FirstIdentifier(j2)

\* C28 as amended: identifiers[0] is the prefix followed by the string form
\* of the entity id ("" when the entity has none), and two raw entities
\* whose entity ids have different string forms, two different strings in
\* particular, never get the same identifiers[0].
C28_IdentifierFromStringFormOfId ==
    /\ \A j \in DOMAIN components :
         /\ FirstIdentifier(j).t = "str"
         /\ FirstIdentifier(j).v = "urn:dynatrace:/" \o PyStr(EntityIdOf(RawEntityOf(j)))
    /\ \A j1, j2 \in DOMAIN components :
         PyStr(EntityIdOf(RawEntityOf(j1))) /= PyStr(EntityIdOf(RawEntityOf(j2)))
         => FirstIdentifier(j1) /= FirstIdentifier(j2)

\* the entities E1 and E2 have been processed into two components with
\* two identifiers
C28_Witness ==
    /\ tpc = "returned"
    /\ Len(components) = 2
    /\ EntityIdOf(RawEntityOf(1)) = JsonStr("E1")
    /\ EntityIdOf(RawEntityOf(2)) = JsonStr("E2")
    /\ FirstIdentifier(1) = JsonStr("urn:dynatrace:/E1")
    /\ FirstIdentifier(2) = JsonStr("urn:dynatrace:/E2")

\* the tags of the component emitted
ComponentTags == processed.val.component["tags"].v

\* the software-technology and monitoring-state labels the entities
\* modelled can give
TechAndStateLabels ==
    {JsonStr("JAVA:17"), JsonStr("actualMonitoringState:ON"),
     JsonStr("expectedMonitoringState:OFF")}

\* C29 as claimed: the software-technology labels and the monitoring-state
\* labels are appended for process-group entities only; a component of
\* another type never carries them, whatever its raw fields.
C29_LabelsForProcessGroupOnly ==
    (npc = "processed" /\ processed.raised = "" /\ component_type /= "process-group")
    => \A j \in DOMAIN ComponentTags : ComponentTags[j] \notin TechAndStateLabels

\* the records of the top-level softwareTechnologies list of the entity
TechRecords ==
    IF "softwareTechnologies" \in DOMAIN entity /\ entity["softwareTechnologies"].t = "list"
    THEN {tech \in {entity["softwareTechnologies"].v[j] :
                       j \in DOMAIN entity["softwareTechnologies"].v} : tech.t = "dict"}
    ELSE {}

\* the state under field of the top-level monitoringState record, null
\* when there is none
StateField(field) ==
    IF "monitoringState" \in DOMAIN entity /\ entity["monitoringState"].t = "dict"
    THEN Get(entity["monitoringState"], field)
    ELSE JsonNull

\* C29 as amended: the software-technology labels and the monitoring-state
\* labels are appended for every component type alike: a component of any
\* type carries the type:edition:version label of each record of its
\* top-level softwareTechnologies list and the actualMonitoringState: and
\* expectedMonitoringState: labels of its top-level monitoringState record,
\* and its tags are those the same entity gets as a process-group.
C29_LabelsForEveryType ==
    (npc = "processed" /\ processed.raised = "")
    => /\ \A tech \in TechRecords :
            TechLabel(tech).val /= ""
            => \E j \in DOMAIN ComponentTags : ComponentTags[j] = JsonStr(TechLabel(tech).val)
       /\ PyTruthy(StateField("actualMonitoringState"))
            => \E j \in DOMAIN ComponentTags :
                 ComponentTags[j] = JsonStr("actualMonitoringState:"
                                            \o PyStr(StateField("actualMonitoringState")))
       /\ PyTruthy(StateField("expectedMonitoringState"))
            => \E j \in DOMAIN ComponentTags :
                 ComponentTags[j] = JsonStr("expectedMonitoringState:"
                                            \o PyStr(StateField("expectedMonitoringState")))
       /\ \A other \in {ProcessEntityToComponent(JsonDict(entity), "process-group")} :
            other.raised = "" => other.val.component["tags"].v = ComponentTags

\* an entity of type process with a technology record and a monitoring
\* state has been processed: its tags end with the three labels
C29_Witness ==
    /\ npc = "processed"
    /\ processed.raised = ""
    /\ component_type = "process"
    /\ Len(ComponentTags) = 8
    /\ SubSeq(ComponentTags, 5, 8)
         = <<JsonStr("E1"), JsonStr("JAVA:17"), JsonStr("actualMonitoringState:ON"),
             JsonStr("expectedMonitoringState:OFF")>>

----------------------------------------------------------------------------
(* clean_unsupported_metadata: customPgMetadata entries that are no record *)

\* the customPgMetadata list of the entity cleaned, when it is a list that
\* holds an entry that is no record
MixedList ==
    IF /\ npc = "returned"
       /\ "properties" \in DOMAIN entity
       /\ entity["properties"].t = "dict"
       /\ "customPgMetadata" \in DOMAIN entity["properties"].v
       /\ entity["properties"].v["customPgMetadata"].t = "list"
       /\ \E j \in DOMAIN entity["properties"].v["customPgMetadata"].v :
            entity["properties"].v["customPgMetadata"].v[j].t /= "dict"
    THEN entity["properties"].v["customPgMetadata"].v
    ELSE <<>>

\* C30 as claimed: a customPgMetadata list holding an entry that is not a
\* record is cleared to an empty record instead of being folded.
C30_NonRecordEntryClearsList ==
    MixedList /= <<>> => cleaned["properties"].v["customPgMetadata"] = EmptyDict

\* the customPgMetadata value of the entity cleaned, when it is neither a
\* list nor a record
IsOtherMetadataValue ==
    /\ npc = "returned"
    /\ "properties" \in DOMAIN entity
    /\ entity["properties"].t = "dict"
    /\ "customPgMetadata" \in DOMAIN entity["properties"].v
    /\ entity["properties"].v["customPgMetadata"].t \notin {"list", "dict"}

\* C30 as amended: a customPgMetadata list holding an entry that is not a
\* record is folded all the same: the entry at index i is kept under the
\* key item_<i> as its string form (unless a later entry resolves to that
\* key), next to the keys of the records of the list.  It is a
\* customPgMetadata value that is neither a list nor a record that is
\* cleared to an empty record.
C30_NonRecordEntryKeptAsItem ==
    /\ MixedList /= <<>> =>
         \E folded \in {cleaned["properties"].v["customPgMetadata"]} :
            /\ folded.t = "dict"
            /\ DOMAIN folded.v =
                 {(IF MixedList[j].t = "dict" THEN ResolveKey(MixedList[j], j - 1)
                   ELSE "item_" \o ToString(j - 1)) : j \in DOMAIN MixedList}
            /\ \A j \in DOMAIN MixedList :
                 (/\ MixedList[j].t /= "dict"
                  /\ \A j2 \in (j + 1)..Len(MixedList) :
                       MixedList[j2].t = "dict"
                       => ResolveKey(MixedList[j2], j2 - 1) /= "item_" \o ToString(j - 1))
                 => /\ folded.v["item_" \o ToString(j - 1)].t = "str"
                    /\ folded.v["item_" \o ToString(j - 1)].v = PyStr(MixedList[j])
    /\ IsOtherMetadataValue => cleaned["properties"].v["customPgMetadata"] = EmptyDict

\* [{"key": "a", "value": 1}, 7] has become {"a": 1, "item_1": "7"}
C30_Witness ==
    /\ MixedList = <<JsonDict([key |-> JsonStr("a"), value |-> JsonInt(1)]), JsonInt(7)>>
    /\ cleaned["properties"].v["customPgMetadata"]
         = JsonDict([a |-> JsonInt(1), item_1 |-> JsonStr("7")])

----------------------------------------------------------------------------
(* process_entity_to_component: the composition of the tag list *)

\* the records of the raw list under field of the entity, in list order
RawRecords(field) ==
    IF field \in DOMAIN entity /\ entity[field].t = "list"
    THEN SelectSeq(entity[field].v, LAMBDA item : item.t = "dict")
    ELSE <<>>

\* the field of a tag record is absent: missing or null
Absent(tag, field) == Get(tag, field) = JsonNull

\* [context]key:value for a tag record, as the claim words it: the context
\* segment left out when the context is absent or CONTEXTLESS, the value
\* suffix left out when there is no value
LabelAsClaimed(tag) ==
    (IF Absent(tag, "context") \/ Get(tag, "context") = JsonStr("CONTEXTLESS")
     THEN "" ELSE "[" \o PyStr(Get(tag, "context")) \o "]")
    \o (IF Absent(tag, "key") THEN "" ELSE PyStr(Get(tag, "key")))
    \o (IF Absent(tag, "value") THEN "" ELSE ":" \o PyStr(Get(tag, "value")))

\* [context]key:value for a tag record, a segment being left out when its
\* field is absent or empty (a false value of Python: null, "", 0, False,
\* an empty list or record) and the context also when it is CONTEXTLESS
LabelOfRecord(tag) ==
    (IF ~PyTruthy(Get(tag, "context")) \/ Get(tag, "context") = JsonStr("CONTEXTLESS")
     THEN "" ELSE "[" \o PyStr(Get(tag, "context")) \o "]")
    \o (IF ~PyTruthy(Get(tag, "key")) THEN "" ELSE PyStr(Get(tag, "key")))
    \o (IF ~PyTruthy(Get(tag, "value")) THEN "" ELSE ":" \o PyStr(Get(tag, "value")))

\* managementZones:<name> for the zone records with a name, in list order
ZoneTags ==
    LET named == SelectSeq(RawRecords("managementZones"),
                           LAMBDA zone : PyTruthy(Get(zone, "name")))
    IN  [j \in DOMAIN named |-> JsonStr("managementZones:" \o PyStr(Get(named[j], "name")))]

\* the raw entity id, when the entity has one
RawIdTag == IF "entityId" \in DOMAIN entity THEN <<entity["entityId"]>> ELSE <<>>

\* the entity id in the string form the scalar coercion gives a number or a
\* boolean, when the entity has one that is not empty
IdTag ==
    IF "entityId" \in DOMAIN entity /\ PyTruthy(CoerceScalars(entity)["entityId"])
    THEN <<CoerceScalars(entity)["entityId"]>>
    ELSE <<>>

\* head is the beginning of list
StartsWith(list, head) ==
    Len(head) <= Len(list) /\ SubSeq(list, 1, Len(head)) = head

\* a component has been emitted for the entity
Emitted == npc = "processed" /\ processed.raised = ""

\* C31 as claimed: the tags of a component begin with one label per
\* structured tag record, of the form [context]key:value, then one label
\* managementZones:<name> per named management zone, then the raw entity id
\* itself.
C31_LabelPerRecordThenZonesThenRawId ==
    Emitted
    => StartsWith(ComponentTags,
                  [j \in DOMAIN RawRecords("tags") |->
                      JsonStr(LabelAsClaimed(RawRecords("tags")[j]))]
                  \o ZoneTags \o RawIdTag)

\* the labels of the tag records that are not empty, in list order
TagRecordLabels ==
    LET filled == SelectSeq(RawRecords("tags"), LAMBDA tag : LabelOfRecord(tag) /= "")
    IN  [j \in DOMAIN filled |-> JsonStr(LabelOfRecord(filled[j]))]

\* C31 as amended: the tags of a component are, in this order, one label
\* [context]key:value per structured tag record whose label is not empty (a
\* segment is left out when its field is absent or empty, the context also
\* when it is CONTEXTLESS), then one label managementZones:<name> per named
\* management zone, then the entity id in its string form when it is not
\* empty; only software-technology and monitoring-state labels follow.
C31_TagLabelsThenZonesThenId ==
    Emitted
    => /\ StartsWith(ComponentTags, TagRecordLabels \o ZoneTags \o IdTag)
       /\ ({"softwareTechnologies", "monitoringState"} \cap DOMAIN entity = {})
            => ComponentTags = TagRecordLabels \o ZoneTags \o IdTag

\* the entity with three tag records, a plain tag, a named zone and an
\* unnamed one has been processed: its tags begin with the three labels, the
\* zone label and the id
C31_Witness ==
    /\ Emitted
    /\ entity = TaggedEntity
    /\ SubSeq(ComponentTags, 1, 5)
         = <<JsonStr("env:prod"), JsonStr("[AWS]zone"), JsonStr(":3"),
             JsonStr("managementZones:z1"), JsonStr("E1")>>

----------------------------------------------------------------------------
(* process_entity_to_component: the caller's entity *)

\* the entity has a properties record
HasProperties == "properties" \in DOMAIN entity /\ entity["properties"].t = "dict"

\* what the copy of the entity reads as after the call: the entity cleaned,
\* its properties without the three fields popped when the process-group
\* reshape was reached
CopyAfterCall ==
    LET copy == CleanUnsupportedMetadata(entity)
    IN  IF HasProperties /\ NormalizeReached(copy, component_type)
        THEN DictSet(copy, "properties",
                     JsonDict([k \in DOMAIN copy["properties"].v
                                     \ {"listenPorts", "softwareTechnologies", "metadata"}
                               |-> copy["properties"].v[k]]))
        ELSE copy

\* C32: normalizing an entity never modifies the caller's raw entity: after
\* process_entity_to_component, for every component type and whether a
\* component was emitted or an exception raised, the caller's record reads
\* as it did when it was passed, its properties included, although the copy
\* has been cleaned and, for a process-group, the properties of the copy,
\* which are those of the component, have lost the fields popped.
C32_CallerEntityUnchanged ==
    npc = "processed"
    => /\ Value(heap, "entity") = entity
       /\ Value(heap, "cleaned_entity") = CopyAfterCall
       /\ (Emitted /\ HasProperties)
            => processed.val.component["properties"]
                 = Value(heap, "cleaned_entity")["properties"]

\* a process-group with listenPorts and metadata under properties has been
\* reshaped: the fields are popped from the properties of the copy and of
\* the component, and the caller's entity still has them
C32_Witness ==
    /\ Emitted
    /\ component_type = "process-group"
    /\ HasProperties
    /\ DOMAIN heap["cleaned_entity.properties"] = {"detectedName"}
    /\ DOMAIN processed.val.component["properties"].v = {"detectedName"}
    /\ {"listenPorts", "metadata"} \subseteq DOMAIN heap["entity.properties"]

----------------------------------------------------------------------------
(* The paginated fetches with a JwtAuthenticator: one retry for every page, *)
(* checked under SpecFetch                                                  *)

\* the invalidate events of the trace
Invalidates == SelectSeq(trace, LAMBDA ev : ev.e = "invalidate")

\* the pages a request has been sent for
RequestedPages == {pg \in 1..page : Len(PageGets(pg)) > 0}

\* the answer is taken for a page: fetch_paginated_entities needs a JSON
\* object as well
TakenForPage(ev) ==
    Accepted(ev) /\ (fn = "fetch_paginated_entities" => ev.body.kind = "doc")

\* the request of page pg was answered 401 and its retry was accepted
RejectedThenAccepted(pg) ==
    /\ Len(PageGets(pg)) = 2
    /\ PageGets(pg)[1].status = 401
    /\ TakenForPage(PageGets(pg)[2])

\* get_token has raised: the authorization endpoint gave no token
TokenRefused == \E j \in DOMAIN trace : trace[j].e = "get_token" /\ trace[j].tok = None

\* C33: the single 401 retry is granted per page request, not per fetch:
\* every page whose request is answered 401 gets its invalidate; a fetch
\* of n pages in which every page was first answered 401 and then
\* accepted has not failed (unless the authorization endpoint refused a
\* token before the request of a further page), has made exactly two
\* requests and one invalidate per page, that is 2n requests and n
\* invalidates, and has returned once the last page had no cursor;
\* and in any fetch no page has more than one invalidate, so that the
\* invalidate calls never outnumber the pages requested.
C33_RetryPerPageRequest ==
    /\ \A pg \in RequestedPages :
         /\ Len(PageInvalidates(pg)) <= 1
         /\ PageGets(pg)[1].status = 401 => Len(PageInvalidates(pg)) = 1
    /\ Len(Invalidates) <= Cardinality(RequestedPages)
    /\ \A ev \in {trace[j] : j \in DOMAIN trace} :
         ev.e = "invalidate" => ev.page \in RequestedPages
    /\ (RequestedPages /= {} /\ \A pg \in RequestedPages : RejectedThenAccepted(pg))
         => /\ pc = "raised" => TokenRefused
            /\ Len(Gets) = 2 * Cardinality(RequestedPages)
            /\ Len(Invalidates) = Cardinality(RequestedPages)
            /\ ~Truthy(IF fn = "fetch_paginated_entities"
                           THEN DictGet(Gets[Len(Gets)].body.val, "nextPageKey", None)
                           ELSE Gets[Len(Gets)].cursor)
                 => pc = "returned"

\* fetch_paginated_v1 has returned two pages, each of them rejected first
\* and accepted on the retry: four requests, two invalidates
C33_Witness ==
    /\ fn = "fetch_paginated_v1"
    /\ pc = "returned"
    /\ RequestedPages = {1, 2}
    /\ RejectedThenAccepted(1)
    /\ RejectedThenAccepted(2)
    /\ Len(Gets) = 4
    /\ Len(Invalidates) = 2
    /\ Len(result.items) = 4

----------------------------------------------------------------------------
(* The paginated fetches with a JwtAuthenticator: no partial result,        *)
(* checked under SpecFetch                                                  *)

\* the fetch met a fatal error on page pg: a request that failed for another
\* reason than a first 401, a token refused before or between its requests,
\* or, in fetch_paginated_entities, an answer that is no JSON object
FatalOn(pg) ==
    \E i \in DOMAIN trace :
        /\ trace[i].page = pg
        /\ \/ Failed(trace[i]) /\ ~IsFirst401(i)
           \/ trace[i].e = "get_token" /\ trace[i].tok = None
           \/ /\ fn = "fetch_paginated_entities"
              /\ Accepted(trace[i])
              /\ trace[i].body.kind /= "doc"

\* C34: in either protocol, a fatal error on any page after the first makes
\* the whole fetch fail: the fetch has raised, and what the caller gets is
\* the exception alone, without the records accumulated from the earlier
\* pages; a fetch that has returned met no fatal error on any page.
C34_NoPartialResult ==
    fn \in Paginated
    => /\ \A pg \in 2..page : FatalOn(pg) => pc = "raised"
       /\ pc = "raised" => /\ result.raised /= ""
                           /\ result.items = <<>>
                           /\ result.body = NoBody
       /\ pc = "returned" => \A pg \in 1..page : ~FatalOn(pg)

\* fetch_paginated_entities has raised on its second page, answered 500,
\* with the records of the first page accumulated: the caller gets none
C34_Witness ==
    /\ fn = "fetch_paginated_entities"
    /\ pc = "raised"
    /\ page = 2
    /\ FatalOn(2)
    /\ trace[Len(trace)].status = 500
    /\ aggregated_items = <<"E1">>
    /\ result.raised = "HTTPError"
    /\ result.body = NoBody

====
